---- MODULE Spec2Model ----
(***************************************************************************)
(* Model of the study-planner client: the axios instance `api` with its    *)
(* request and response interceptors (token injection, refresh on 401),    *)
(* the token storage in localStorage, the zustand plan store, and the      *)
(* dashboard and upload page flows that call the API.                      *)
(*                                                                         *)
(* One JavaScript callback (a handler up to its first await, or the        *)
(* continuation that runs when a promise settles) is one action: the event *)
(* loop runs it to completion before another starts.                       *)
(***************************************************************************)
EXTENDS Integers, Sequences, FiniteSets, TLC

\* ------------------------------------------------------------------ values

\* JS null / undefined / a key absent from localStorage.
Null == "null"

\* Access and refresh tokens the server hands out.
Tokens == {"tA", "tB"}

\* JS truthiness of a string-or-null value: null, undefined and '' are falsy.
Truthy(v) == v # Null /\ v # ""

\* The template literal `Bearer ${token}`; <<>> is "no Authorization header".
Bearer(token) == <<"Bearer", token>>

\* HTTP outcomes of one exchange: 0 is a network error (error.response is
\* undefined), 200 a success, 401 and 500 error responses.
Statuses == {0, 200, 401, 500}

\* Number of request slots: how many requests through `api` can be in flight
\* at the same time.
MaxReqs == 4

Slots == 1..MaxReqs

\* ------------------------------------------------------------------ state

VARIABLES
    \* the browser and the axios instance
    localStorage,   \* key -> stored string, or Null when the key is absent
    keysUsed,       \* history: every localStorage key a token function touched
    href,           \* window.location.href / the router's current path
    reqs,           \* slot -> the request config and its progress
    console,        \* history: the messages console.error was called with
    lastCall,       \* history: the page handler invoked last
    events,         \* history: the outside events of the session so far
    \* useAuthStore
    user, isAuthenticated,
    \* usePlanStore
    currentPlan, plans, syllabi,
    lastUpdate,     \* history: the latest updateTask call on currentPlan
    \* DashboardPage
    page,           \* the page component that is mounted
    loading, progress, updatingTask, selectedTask, isModalOpen,
    fetchPc,        \* where fetchData is
    savePc,         \* where handleTaskSave is
    \* TaskModal
    status, actualDuration, difficulty, notes, saving,
    optionalEdits,  \* history: inputs made to the modal's duration, difficulty and notes
    \* UploadPage
    file, uploading, parsing, generating, syllabusId, parsedData, error,
    studyHours, selectedDays,
    uploadPc,       \* where handleUpload is
    uploadFrom,     \* history: syllabusId and parsedData when handleUpload was called
    generatePc      \* where handleGeneratePlan is

apiVars == <<localStorage, keysUsed, href, reqs>>
logVars == <<console, lastCall, events>>
authVars == <<user, isAuthenticated>>
planVars == <<currentPlan, plans, syllabi, lastUpdate>>
dashVars == <<page, loading, progress, updatingTask, selectedTask, isModalOpen,
              fetchPc, savePc>>
modalVars == <<status, actualDuration, difficulty, notes, saving, optionalEdits>>
uploadVars == <<file, uploading, parsing, generating, syllabusId, parsedData,
                error, studyHours, selectedDays, uploadPc, uploadFrom,
                generatePc>>

vars == <<apiVars, logVars, authVars, planVars, dashVars, modalVars, uploadVars>>

StorageKeys == {"access_token", "refresh_token", "auth_token"}

\* An axios error as the caller sees it: which call failed ("request" is the
\* caller's own request, "refresh" the POST /auth/refresh), error.response.status
\* (0 when there is no response) and error.response.data.detail.
Err(from, code, detail) == [from |-> from, status |-> code, detail |-> detail]
NoError == Err("none", 0, Null)

\* response.data of a successful exchange.
NoData == [kind |-> "none"]

\* JS null where the non-null values are objects (a plan, a task, a file).
NullObj == [null |-> TRUE]

\* A free slot: no request. `refreshed` is the access_token of the refresh
\* response, once there is one.
IdleReq ==
    [state |-> "idle", url |-> Null, owner |-> Null, data |-> NoData,
     Authorization |-> <<>>, _retry |-> FALSE, sends |-> 0, refreshes |-> 0,
     status |-> 0, result |-> "pending", error |-> NoError,
     response |-> NoData, refreshed |-> Null]

\* The lowest free slot (requests are anonymous; any free slot would do).
FreeSlots == {r \in Slots : reqs[r].state = "idle"}
FreeSlot == CHOOSE r \in FreeSlots : \A q \in FreeSlots : r <= q

\* History of invocations: every action records its operation, so a step
\* that changes the state is a step of the operation lastCall' names.
Called(op) == lastCall' = op

\* ---------------------------------------------------------- interceptors

\* The request interceptor without its token injection.
RequestInterceptor_NoHeader(config, store) == config

\* api.interceptors.request.use: read access_token and, when it is truthy,
\* set the Authorization header; otherwise the config goes out as it came.
RequestInterceptor(config, store) ==
    LET token == store["access_token"] IN
    IF Truthy(token)
    THEN [config EXCEPT !.Authorization = Bearer(token)]
    ELSE config

\* Handing a config to `api`: the request interceptor runs and the request is
\* on the wire, with no response yet.
Dispatch(config, store) ==
    [RequestInterceptor(config, store) EXCEPT
        !.state = "sent", !.sends = config.sends + 1, !.status = 0]

\* A refresh tried on any error of a request not yet retried.
ShouldRefresh_AnyError(code, retried) == ~retried

\* `error.response?.status === 401 && !originalRequest._retry`
ShouldRefresh(code, retried) == code = 401 /\ ~retried

\* The retry flag never set.
MarkRetried_Forgotten(config) == config

\* `originalRequest._retry = true`
MarkRetried(config) == [config EXCEPT !._retry = TRUE]

\* A refresh attempted whether or not a refresh token is stored.
HasRefreshToken_Always(refreshToken) == TRUE

\* `if (refreshToken)`
HasRefreshToken(refreshToken) == Truthy(refreshToken)

\* Promise.reject(error): the request is settled, rejected with `err`.
Rejected(config, err) ==
    [config EXCEPT !.state = "done", !.result = "rejected", !.error = err]

\* The success handler `(response) => response`.
Resolved(config, data) ==
    [config EXCEPT !.state = "done", !.result = "resolved", !.response = data]

\* A write that does not reach the store.
setItem_Lost(store, key, value) == store

\* localStorage.getItem / setItem / removeItem on a store.
getItem(store, key) == store[key]
setItem(store, key, value) == [store EXCEPT ![key] = value]
removeItem(store, key) == [store EXCEPT ![key] = Null]

\* Only the access token removed.
ClearTokens_AccessOnly(store) == removeItem(store, "access_token")

\* The catch block of the refresh: both tokens are removed.
ClearTokens(store) ==
    removeItem(removeItem(store, "access_token"), "refresh_token")

\* error.response.data.detail values a server sends: none, empty, a message.
\* Only the upload page reads the detail, so only its calls vary it.
DetailsOf(url) ==
    CASE url \in {"/syllabus/upload", "/syllabus/"} -> {Null, "", "upload detail"}
      [] url = "/plans/generate" -> {Null, "", "generate detail"}
      [] OTHER -> {Null}

\* api(config) called by `owner` for `url` with payload `data`, the requests
\* in flight being rs: the lowest free slot takes the request, the request
\* interceptor runs.
Sent(rs, url, owner, data) ==
    LET free == {r \in Slots : rs[r].state = "idle"}
        slot == CHOOSE r \in free : \A q \in free : r <= q IN
    [rs EXCEPT ![slot] =
        Dispatch([IdleReq EXCEPT !.url = url, !.owner = owner, !.data = data],
                 localStorage)]

Send(url, owner, data) ==
    /\ FreeSlots # {}
    /\ reqs' = Sent(reqs, url, owner, data)
    /\ keysUsed' = keysUsed \cup {"access_token"}

\* The slot of a settled request given back.
Freed(r) == [reqs EXCEPT ![r] = IdleReq]

\* The settled request `owner` awaits, if any.
SettledOf(owner) ==
    {r \in Slots : reqs[r].owner = owner /\ reqs[r].state = "done"}

\* The server answers request r with `status` (0: no answer, a network error)
\* and the response interceptor runs up to its first await or its return.
ResponseInterceptor(r, code, detail, data) ==
    LET config == [reqs[r] EXCEPT !.status = code] IN
    IF code = 200
    THEN /\ reqs' = [reqs EXCEPT ![r] = Resolved(config, data)]
         /\ UNCHANGED <<localStorage, keysUsed, href>>
    ELSE IF ShouldRefresh(code, config._retry)
    THEN LET retried == MarkRetried(config)
             refreshToken == getItem(localStorage, "refresh_token") IN
         /\ keysUsed' = keysUsed \cup {"refresh_token"}
         /\ UNCHANGED <<localStorage, href>>
         /\ IF HasRefreshToken(refreshToken)
            THEN reqs' = [reqs EXCEPT ![r] =
                    [retried EXCEPT !.state = "refreshing",
                                    !.refreshes = retried.refreshes + 1]]
            ELSE reqs' = [reqs EXCEPT ![r] =
                    Rejected(retried, Err("request", code, detail))]
    ELSE /\ reqs' = [reqs EXCEPT ![r] =
                Rejected(config, Err("request", code, detail))]
         /\ UNCHANGED <<localStorage, keysUsed, href>>

\* POST /auth/refresh succeeded with `access_token`: it is stored, put into
\* the header, and the original request goes through api again.
RefreshSucceeded(r, access_token) ==
    LET store == setItem(localStorage, "access_token", access_token)
        config == [reqs[r] EXCEPT !.Authorization = Bearer(access_token),
                                  !.refreshed = access_token] IN
    /\ localStorage' = store
    /\ reqs' = [reqs EXCEPT ![r] = Dispatch(config, store)]
    /\ keysUsed' = keysUsed \cup {"access_token"}
    /\ UNCHANGED href

\* POST /auth/refresh failed: logout, redirect, reject with the refresh error.
RefreshFailed(r, code, detail) ==
    /\ localStorage' = ClearTokens(localStorage)
    /\ href' = "/login"
    /\ reqs' = [reqs EXCEPT ![r] =
            Rejected(reqs[r], Err("refresh", code, detail))]
    /\ keysUsed' = keysUsed \cup {"access_token", "refresh_token"}

\* ------------------------------------------------------------ plan data

\* Bound: the plans in the store's list.
MaxPlans == 2

\* JS undefined as the value of an object key that is present.
Undefined == "undefined"

\* A task as the server sends it: id, fields the client never edits (title
\* stands for them) and status; actual_duration_minutes, difficulty and notes
\* are optional keys, absent at first.
TaskWith(id, st) == [id |-> id, title |-> "title", status |-> st]
Task(id) == TaskWith(id, "pending")

\* WeekPlan[]: week i has week_number i and the i-th task list.
WeeksOf(lists) ==
    [i \in DOMAIN lists |-> [week_number |-> i, tasks |-> lists[i]]]

\* A Plan with its StudyPlan in plan_data.
Plan(plan_id, weeks) ==
    [plan_id |-> plan_id, title |-> "plan",
     plan_data |-> [title |-> "study", weeks |-> weeks]]

\* The plans the server holds: one week of two tasks, one of them completed;
\* two weeks with an id in both; an empty week before a week of one task; no
\* weeks.
PlanA == Plan(1, WeeksOf(<<<<Task("a"), TaskWith("b", "completed")>>>>))
PlanB == Plan(2, WeeksOf(<<<<Task("a")>>, <<Task("b"), Task("a")>>>>))
PlanC == Plan(3, WeeksOf(<<<<>>, <<Task("b")>>>>))
PlanD == Plan(4, <<>>)
PlanPool == {PlanA, PlanB, PlanC, PlanD}

\* The plan lists GET /plans/ returns.
PlanLists == {<<>>, <<PlanA>>, <<PlanB, PlanA>>}

\* The syllabi lists the server returns.
SyllabiLists == {<<>>, <<[syllabus_id |-> 1]>>}

\* What a caller passes as `updates` (TaskUpdateForm): any of the optional
\* keys, each with a value.
UpdateSet ==
    {[status |-> "in_progress"], [status |-> "completed"], [notes |-> "n1"],
     [status |-> "completed", notes |-> "n2"]}

\* The task ids callers pass: two that plans hold, one that none holds.
TaskIds == {"a", "b", "zz"}

\* No updateTask call since currentPlan was set.
NoCall == [none |-> TRUE]

\* Existing keys win over the update's.
Merge_KeepExisting(task, updates) ==
    [k \in DOMAIN task \cup DOMAIN updates |->
        IF k \in DOMAIN task THEN task[k] ELSE updates[k]]

\* `{ ...task, ...updates }`: every key of either, the update's value where
\* the update has the key.
Merge(task, updates) ==
    [k \in DOMAIN task \cup DOMAIN updates |->
        IF k \in DOMAIN updates THEN updates[k] ELSE task[k]]

\* Every task matches.
Matches_Any(task, taskId) == TRUE

\* `task.id === taskId`
Matches(task, taskId) == task.id = taskId

\* updateTask's new currentPlan: each week copied with its tasks mapped, a
\* matching task replaced by the merge.
UpdatedPlan(plan, taskId, updates) ==
    LET weeks == plan.plan_data.weeks
        newTasks(tasks) ==
            [t \in DOMAIN tasks |->
                IF Matches(tasks[t], taskId)
                THEN Merge(tasks[t], updates) ELSE tasks[t]]
        newWeeks ==
            [w \in DOMAIN weeks |->
                [weeks[w] EXCEPT !.tasks = newTasks(weeks[w].tasks)]]
    IN [plan EXCEPT !.plan_data = [plan.plan_data EXCEPT !.weeks = newWeeks]]

\* usePlanStore.updateTask on the store's variables.
updateTask(taskId, updates) ==
    /\ IF currentPlan = NullObj
       THEN UNCHANGED <<currentPlan, lastUpdate>>
       ELSE /\ currentPlan' = UpdatedPlan(currentPlan, taskId, updates)
            /\ lastUpdate' = [taskId |-> taskId, updates |-> updates]
    /\ UNCHANGED <<plans, syllabi>>

\* usePlanStore.setCurrentPlan
setCurrentPlan(plan) ==
    /\ currentPlan' = plan
    /\ lastUpdate' = NoCall

\* ------------------------------------------------------- initial values

\* localStorage: each token key holds a token or is absent.
InitStorageFrom(access, refresh) ==
    /\ localStorage \in {[k \in StorageKeys |->
            CASE k = "access_token" -> a
              [] k = "refresh_token" -> f
              [] OTHER -> Null] : a \in access, f \in refresh}
    /\ keysUsed = {}

InitApi ==
    /\ reqs = [r \in Slots |-> IdleReq]
    /\ console = {}
    /\ lastCall = "none"
    /\ events = 0

\* useAuthStore's initial state.
InitAuthStore ==
    /\ user = Null
    /\ isAuthenticated = FALSE

\* usePlanStore's initial state.
InitPlanStore ==
    /\ currentPlan = NullObj
    /\ plans = <<>>
    /\ syllabi = <<>>
    /\ lastUpdate = NoCall

\* DashboardPage's useState initial values.
InitDashboard ==
    /\ loading = TRUE
    /\ progress = NullObj
    /\ updatingTask = Null
    /\ selectedTask = NullObj
    /\ isModalOpen = FALSE
    /\ fetchPc = "mount"
    /\ savePc = "idle"

\* TaskModal's useState initial values: the modal is mounted with the
\* dashboard, task = null, so every `task?.x || default` is the default.
InitModal ==
    /\ status = "pending"
    /\ actualDuration = 0
    /\ difficulty = Null
    /\ notes = ""
    /\ saving = FALSE
    /\ optionalEdits = 0

\* UploadPage's useState initial values.
InitUpload ==
    /\ file = NullObj
    /\ uploading = FALSE
    /\ parsing = FALSE
    /\ generating = FALSE
    /\ syllabusId = 0
    /\ parsedData = NullObj
    /\ error = ""
    /\ studyHours = 3
    /\ selectedDays = <<"monday", "tuesday", "wednesday", "thursday", "friday">>
    /\ uploadPc = "idle"
    /\ uploadFrom = <<0, NullObj>>
    /\ generatePc = "idle"

\* ----------------------------------------------- the api instance alone

nonApiVars == <<console, authVars, planVars, dashVars, modalVars, uploadVars>>

\* response.data of POST /syllabus/upload: the new id and the parsed data,
\* which the server may leave null.
UploadResponses ==
    {[syllabus_id |-> 1, parsed_data |-> [course_name |-> "course"]],
     [syllabus_id |-> 2, parsed_data |-> NullObj]}

\* The plan lists GET /plans/ answers with.
ServerPlanLists == {<<>>, <<PlanA, PlanD>>}

\* response.data of GET /plans/{id}/progress.
ProgressResponses ==
    {[total_tasks |-> 2, completed_tasks |-> 0],
     [total_tasks |-> 2, completed_tasks |-> 1]}

\* response.data the server sends for a successful call of `url`; NoData
\* stands for a body without the keys the caller reads.
ResponsesOf(url) ==
    CASE url = "/syllabus/upload" -> UploadResponses
      [] url = "/syllabus/" -> {[syllabi |-> l] : l \in SyllabiLists} \cup {NoData}
      [] url = "/plans/" -> {[plans |-> l] : l \in ServerPlanLists} \cup {NoData}
      [] url = "/plans/generate" -> {PlanC}
      [] url = "/plans/{id}/progress" -> ProgressResponses
      [] url = "/auth/login" ->
            {[access_token |-> a, refresh_token |-> f] : a, f \in Tokens}
      [] OTHER -> {NoData}

\* Bound: the requests the callers of the client keep in flight at a time.
MaxCallers == 2

\* Some caller sends a request through api (authAPI.getCurrentUser).
CallerSend ==
    /\ Cardinality(Slots \ FreeSlots) < MaxCallers
    /\ Send("/auth/me", "caller", NoData)
    /\ UNCHANGED <<localStorage, href>>
    /\ Called("api: request")
    /\ UNCHANGED events
    /\ UNCHANGED nonApiVars

\* The server answers a request that is on the wire.
RespondWith(codes) ==
    /\ \E r \in Slots :
        /\ reqs[r].state = "sent"
        /\ \E code \in codes, detail \in DetailsOf(reqs[r].url) :
              /\ code \in {0, 200} => detail = Null
              /\ \E data \in (IF code = 200 THEN ResponsesOf(reqs[r].url)
                               ELSE {NoData}) :
                    ResponseInterceptor(r, code, detail, data)
    /\ Called("api: response")
    /\ UNCHANGED nonApiVars

Respond == RespondWith(Statuses) /\ UNCHANGED events

\* The refresh endpoint answers with a new access token.
RefreshOkWith(tokens) ==
    /\ \E r \in Slots, access_token \in tokens :
        /\ reqs[r].state = "refreshing"
        /\ RefreshSucceeded(r, access_token)
    /\ Called("api: refreshed")
    /\ UNCHANGED events
    /\ UNCHANGED nonApiVars

RefreshOk == RefreshOkWith(Tokens)

\* The refresh call fails (rejected refresh token, server or network error).
RefreshFailWith(codes) ==
    /\ \E r \in Slots :
        /\ reqs[r].state = "refreshing"
        /\ \E code \in codes, detail \in DetailsOf(reqs[r].url) :
              /\ code = 0 => detail = Null
              /\ RefreshFailed(r, code, detail)
    /\ Called("api: refresh failed")
    /\ UNCHANGED nonApiVars

RefreshFail == RefreshFailWith(Statuses \ {200}) /\ UNCHANGED events

\* The caller's await continues with the outcome; the slot is free again.
CallerSettled ==
    /\ \E r \in Slots :
        /\ reqs[r].state = "done"
        /\ reqs[r].owner = "caller"
        /\ reqs' = [reqs EXCEPT ![r] = IdleReq]
    /\ UNCHANGED <<localStorage, keysUsed, href>>
    /\ Called("caller: settled")
    /\ UNCHANGED events
    /\ UNCHANGED nonApiVars

InitApiSpec ==
    /\ InitStorageFrom(Tokens \cup {Null}, Tokens \cup {Null})
    /\ href = "/"
    /\ page = "none"
    /\ InitApi /\ InitAuthStore /\ InitPlanStore /\ InitDashboard
    /\ InitModal /\ InitUpload

NextApi ==
    \/ CallerSend
    \/ Respond
    \/ RefreshOk
    \/ RefreshFail
    \/ CallerSettled

SpecApi == InitApiSpec /\ [][NextApi]_vars

\* C1: a request sees at most one POST /auth/refresh and is sent at most
\* twice (the original and one retry); a 401 on the retry is rejected to the
\* caller as that 401 error, with no second refresh and no third send, so the
\* handling of a request ends after at most three exchanges.
C1_SingleShotRefresh ==
    \A r \in Slots :
        LET q == reqs[r] IN
        /\ q.refreshes <= 1
        /\ q.sends <= 2
        /\ (q.sends = 2 => q._retry /\ q.refreshes = 1)
        /\ (q.state = "refreshing" => q.sends = 1)
        /\ (q.sends = 2 /\ q.status = 401 =>
                /\ q.state = "done"
                /\ q.result = "rejected"
                /\ q.error.from = "request"
                /\ q.error.status = 401)

\* C1's case: a retried request got a second 401 and is rejected.
C1_Witness ==
    \E r \in Slots :
        /\ reqs[r].state = "done"
        /\ reqs[r].sends = 2
        /\ reqs[r].status = 401
        /\ reqs[r].result = "rejected"

\* C2 as stated: every request that got a 401 (so _retry is set) has, once
\* settled, made exactly one refresh attempt and exactly one retry.
C2_Original ==
    \A r \in Slots :
        reqs[r].state = "done" /\ reqs[r]._retry =>
            reqs[r].refreshes = 1 /\ reqs[r].sends = 2

\* C2 amended: a 401 on a request not yet retried, with a refresh_token
\* stored, starts exactly one refresh and sends nothing yet; a 401 on a
\* retried request or with no refresh_token stored settles the request with
\* no refresh and no retry; the refresh's outcome then re-sends the request
\* exactly once (success) or not at all (failure).
C2_RefreshAndRetry ==
    [][\A r \in Slots :
        LET a == reqs[r]
            b == reqs'[r] IN
        /\ (a.state = "sent" /\ b.state # "sent" /\ b.status = 401) =>
              IF ~a._retry /\ localStorage["refresh_token"] # Null
              THEN /\ b.state = "refreshing"
                   /\ b.refreshes = a.refreshes + 1
                   /\ b.sends = a.sends
              ELSE /\ b.state = "done"
                   /\ b.refreshes = a.refreshes
                   /\ b.sends = a.sends
        /\ (a.state = "refreshing" /\ b.state # "refreshing") =>
              /\ b.refreshes = a.refreshes
              /\ \/ b.state = "sent" /\ b.sends = a.sends + 1
                 \/ b.state = "done" /\ b.sends = a.sends
                    /\ b.error.from = "refresh"
        /\ b.refreshes <= 1
      ]_vars

\* C2's cases in one state: one request refreshed and retried, another got a
\* 401 and was never re-sent.
C2_Witness ==
    /\ \E r \in Slots :
          reqs[r].state = "done" /\ reqs[r].refreshes = 1 /\ reqs[r].sends = 2
    /\ \E r \in Slots :
          reqs[r].state = "done" /\ reqs[r]._retry /\ reqs[r].sends = 1

\* C4: whenever a request goes on the wire (first send or retry), its
\* Authorization header is 'Bearer ' + the access_token stored at that
\* moment, and there is no Authorization header when none is stored.
C4_BearerHeader ==
    [][\A r \in Slots :
        reqs'[r].sends > reqs[r].sends =>
            reqs'[r].Authorization =
                IF localStorage'["access_token"] # Null
                THEN Bearer(localStorage'["access_token"])
                ELSE <<>>
      ]_vars

\* C4's case: a retry is on the wire with a refreshed token that differs from
\* the one the first send carried.
C4_Witness ==
    \E r \in Slots :
        /\ reqs[r].state = "sent"
        /\ reqs[r].sends = 2
        /\ reqs[r].Authorization = Bearer(localStorage["access_token"])
        /\ \E q \in Slots :
              /\ q # r
              /\ reqs[q].state = "sent"
              /\ reqs[q].Authorization # reqs[r].Authorization

\* ------------------------------------------------------ the plan store

nonPlanVars == <<apiVars, console, authVars, dashVars, modalVars, uploadVars>>

StoreUpdateTask ==
    /\ \E taskId \in TaskIds, updates \in UpdateSet : updateTask(taskId, updates)
    /\ Called("updateTask")
    /\ UNCHANGED events
    /\ UNCHANGED nonPlanVars

StoreSetCurrentPlan ==
    /\ \E plan \in PlanPool \cup {NullObj} : setCurrentPlan(plan)
    /\ Called("setCurrentPlan")
    /\ UNCHANGED events
    /\ UNCHANGED <<plans, syllabi>>
    /\ UNCHANGED nonPlanVars

StoreSetPlans ==
    /\ \E list \in PlanLists : plans' = list
    /\ Called("setPlans")
    /\ UNCHANGED events
    /\ UNCHANGED <<currentPlan, syllabi, lastUpdate>>
    /\ UNCHANGED nonPlanVars

StoreSetSyllabi ==
    /\ \E list \in SyllabiLists : syllabi' = list
    /\ Called("setSyllabi")
    /\ UNCHANGED events
    /\ UNCHANGED <<currentPlan, plans, lastUpdate>>
    /\ UNCHANGED nonPlanVars

\* addPlan: the new plan goes to the front of the list.
StoreAddPlan ==
    /\ Len(plans) < MaxPlans
    /\ \E plan \in {PlanC} : plans' = <<plan>> \o plans
    /\ Called("addPlan")
    /\ UNCHANGED events
    /\ UNCHANGED <<currentPlan, syllabi, lastUpdate>>
    /\ UNCHANGED nonPlanVars

InitStoreSpec ==
    /\ InitStorageFrom({Null}, {Null})
    /\ href = "/"
    /\ page = "none"
    /\ InitApi /\ InitAuthStore /\ InitPlanStore /\ InitDashboard
    /\ InitModal /\ InitUpload

NextStore ==
    \/ StoreUpdateTask
    \/ StoreSetCurrentPlan
    \/ StoreSetPlans
    \/ StoreSetSyllabi
    \/ StoreAddPlan

SpecStore == InitStoreSpec /\ [][NextStore]_vars

\* The tasks of a plan, as <<week index, task index>> positions.
Positions(plan) ==
    UNION {{<<w, t>> : t \in DOMAIN plan.plan_data.weeks[w].tasks} :
              w \in DOMAIN plan.plan_data.weeks}
TaskAt(plan, pos) == plan.plan_data.weeks[pos[1]].tasks[pos[2]]
HasTask(plan, pos) ==
    /\ pos[1] \in DOMAIN plan.plan_data.weeks
    /\ pos[2] \in DOMAIN plan.plan_data.weeks[pos[1]].tasks

\* C6: no updateTask call is rejected, and two calls in a row on the same
\* task id resolve last-write-wins: a key of the later call has the later
\* call's value, a key only the earlier call had keeps the earlier value.
C6_LastWriteWins ==
    [][LET c1 == lastUpdate
           c2 == lastUpdate' IN
       (c1 # NoCall /\ c2 # NoCall /\ c1.taskId = c2.taskId) =>
          /\ currentPlan' # NullObj
          /\ \A pos \in Positions(currentPlan') :
                (HasTask(currentPlan', pos)
                 /\ TaskAt(currentPlan', pos).id = c2.taskId) =>
                    LET task == TaskAt(currentPlan', pos) IN
                    /\ \A k \in DOMAIN c2.updates : task[k] = c2.updates[k]
                    /\ \A k \in DOMAIN c1.updates \ DOMAIN c2.updates :
                          task[k] = c1.updates[k]
      ]_vars

\* C6's case: a task holds notes from an earlier call and the status of the
\* later call, which had no notes key.
C6_Witness ==
    /\ lastUpdate # NoCall
    /\ currentPlan # NullObj
    /\ DOMAIN lastUpdate.updates = {"status"}
    /\ \E pos \in Positions(currentPlan) :
          /\ HasTask(currentPlan, pos)
          /\ TaskAt(currentPlan, pos).id = lastUpdate.taskId
          /\ "notes" \in DOMAIN TaskAt(currentPlan, pos)
          /\ TaskAt(currentPlan, pos).status = lastUpdate.updates.status

\* C7: an updateTask step leaves plans and syllabi alone; with currentPlan
\* null it stays null; otherwise the plan keeps its own fields, its weeks in
\* number and order, each week its tasks in number and order, every task
\* with another id is unchanged, and a task with the id is the shallow merge
\* of the updates over it.
C7_UpdateTaskFrame ==
    [][(lastCall' = "updateTask") =>
        /\ plans' = plans
        /\ syllabi' = syllabi
        /\ IF currentPlan = NullObj
           THEN currentPlan' = NullObj
           ELSE LET c == lastUpdate'
                    old == currentPlan
                    new == currentPlan' IN
                /\ new.plan_id = old.plan_id
                /\ new.title = old.title
                /\ new.plan_data.title = old.plan_data.title
                /\ DOMAIN new.plan_data.weeks = DOMAIN old.plan_data.weeks
                /\ \A w \in DOMAIN old.plan_data.weeks :
                      /\ new.plan_data.weeks[w].week_number =
                            old.plan_data.weeks[w].week_number
                      /\ DOMAIN new.plan_data.weeks[w].tasks =
                            DOMAIN old.plan_data.weeks[w].tasks
                /\ \A pos \in Positions(old) : HasTask(old, pos) =>
                      LET before == TaskAt(old, pos)
                          after == TaskAt(new, pos) IN
                      IF before.id = c.taskId
                      THEN /\ DOMAIN after = DOMAIN before \cup DOMAIN c.updates
                           /\ \A k \in DOMAIN c.updates : after[k] = c.updates[k]
                           /\ \A k \in DOMAIN before \ DOMAIN c.updates :
                                 after[k] = before[k]
                      ELSE after = before
                /\ (\A pos \in Positions(old) : HasTask(old, pos) =>
                        TaskAt(old, pos).id # c.taskId) => new = old
      ]_vars

\* C7's case: a plan with two weeks where one task was updated and another
\* task, with a different id, still is as the server sent it.
C7_Witness ==
    /\ lastCall = "updateTask"
    /\ currentPlan # NullObj
    /\ plans # <<>>
    /\ syllabi # <<>>
    /\ Len(currentPlan.plan_data.weeks) = 2
    /\ \E p1, p2 \in Positions(currentPlan) :
          /\ HasTask(currentPlan, p1) /\ HasTask(currentPlan, p2)
          /\ TaskAt(currentPlan, p1).id = lastUpdate.taskId
          /\ TaskAt(currentPlan, p1).status = "completed"
          /\ TaskAt(currentPlan, p2) = Task("b")

\* ------------------------------------------------------ the upload page

\* `const DAYS_OF_WEEK = [...]`
DAYS_OF_WEEK ==
    <<"monday", "tuesday", "wednesday", "thursday", "friday", "saturday",
      "sunday">>

\* The files a user picks.
Files == {[name |-> "syllabus.pdf"]}

\* The days the user toggles.
ToggledDays == {"saturday"}

\* The detail shown whatever it is.
ErrorMessage_DetailOnly(err, fallback) == err.detail

\* `err.response?.data?.detail || fallback`
ErrorMessage(err, fallback) ==
    IF Truthy(err.detail) THEN err.detail ELSE fallback

\* What the page renders: the upload button (the file card replaces the drop
\* zone once a file is chosen) and whether it is enabled; the preferences
\* card with the generate button.
UploadButtonShown == file # NullObj
UploadButtonEnabled == ~uploading
DropZoneShown == file = NullObj
PreferencesShown == syllabusId # 0

\* The Generate button pressable whatever the page state.
GenerateButtonEnabled_Always == TRUE

\* `disabled={generating || selectedDays.length === 0}`
GenerateButtonEnabled == ~generating /\ Len(selectedDays) # 0

\* The upload page is mounted and renders its controls: it stays so while a
\* navigation away from it is pending.
OnUploadPage == page = "upload" /\ isAuthenticated

uploadFrame == <<console, authVars, dashVars, modalVars>>

\* The path after component `p` has rendered with the router at `path`:
\* UploadPage calls router.push('/login') in every render without a session
\* (and returns null); the other components push nothing while rendering.
AfterRender(p, authenticated, path) ==
    IF p = "upload" /\ ~authenticated THEN "/login" ELSE path

\* handleFileChange: the file input's change event with a file.
HandleFileChange ==
    /\ OnUploadPage /\ DropZoneShown
    /\ \E f \in Files : file' = f
    /\ error' = ""
    /\ Called("handleFileChange")
    /\ UNCHANGED <<uploading, parsing, generating, syllabusId, parsedData,
                   studyHours, selectedDays, uploadPc, uploadFrom,
                   generatePc>>
    /\ UNCHANGED <<apiVars, planVars, uploadFrame>>

\* handleDrop: a file dropped on the drop zone.
HandleDrop ==
    /\ OnUploadPage /\ DropZoneShown
    /\ \E f \in Files : file' = f
    /\ error' = ""
    /\ Called("handleDrop")
    /\ UNCHANGED <<uploading, parsing, generating, syllabusId, parsedData,
                   studyHours, selectedDays, uploadPc, uploadFrom,
                   generatePc>>
    /\ UNCHANGED <<apiVars, planVars, uploadFrame>>

\* The Remove button: setFile(null).
RemoveFile ==
    /\ OnUploadPage /\ UploadButtonShown
    /\ file' = NullObj
    /\ Called("removeFile")
    /\ UNCHANGED <<uploading, parsing, generating, syllabusId, parsedData,
                   error, studyHours, selectedDays, uploadPc, uploadFrom,
                   generatePc>>
    /\ UNCHANGED <<apiVars, planVars, uploadFrame>>

\* The guard of handleUpload dropped.
NoFile_Ignored(f) == FALSE

\* `if (!file) return;`
NoFile(f) == f = NullObj

\* handleUpload up to its first await.
HandleUpload ==
    /\ OnUploadPage
    /\ Called("handleUpload")
    /\ IF NoFile(file)
       THEN UNCHANGED <<uploading, parsing, error, uploadPc, uploadFrom,
                       apiVars>>
       ELSE /\ uploading' = TRUE
            /\ parsing' = TRUE
            /\ error' = ""
            /\ Send("/syllabus/upload", "handleUpload", [file |-> file])
            /\ uploadPc' = "await upload"
            /\ uploadFrom' = <<syllabusId, parsedData>>
            /\ UNCHANGED <<localStorage, href>>
    /\ UNCHANGED <<file, generating, syllabusId, parsedData, studyHours,
                   selectedDays, generatePc>>
    /\ UNCHANGED <<planVars, uploadFrame>>

\* handleUpload after `await syllabusAPI.upload(file)`: the ids are stored
\* and the syllabi list is asked for, or the catch and finally blocks run.
UploadSettled ==
    /\ uploadPc = "await upload"
    /\ \E r \in SettledOf("handleUpload") :
        IF reqs[r].result = "resolved"
        THEN /\ syllabusId' = reqs[r].response.syllabus_id
             /\ parsedData' = reqs[r].response.parsed_data
             /\ reqs' = Sent(Freed(r), "/syllabus/", "handleUpload", NoData)
             /\ keysUsed' = keysUsed \cup {"access_token"}
             /\ uploadPc' = "await syllabi"
             /\ UNCHANGED uploadFrom
             /\ UNCHANGED <<uploading, parsing, error>>
        ELSE /\ error' = ErrorMessage(reqs[r].error, "Upload failed")
             /\ uploading' = FALSE
             /\ parsing' = FALSE
             /\ reqs' = Freed(r)
             /\ uploadPc' = "idle"
             /\ uploadFrom' = <<0, NullObj>>
             /\ UNCHANGED <<syllabusId, parsedData, keysUsed>>
    /\ Called("handleUpload: upload settled")
    /\ UNCHANGED events
    /\ UNCHANGED <<file, generating, studyHours, selectedDays, generatePc>>
    /\ UNCHANGED <<localStorage, href, planVars, uploadFrame>>

\* handleUpload after `await syllabusAPI.getAll()`.
SyllabiSettled ==
    /\ uploadPc = "await syllabi"
    /\ \E r \in SettledOf("handleUpload") :
        /\ IF reqs[r].result = "resolved"
           THEN /\ syllabi' = IF "syllabi" \in DOMAIN reqs[r].response
                              THEN reqs[r].response.syllabi ELSE <<>>
                /\ UNCHANGED error
           ELSE /\ error' = ErrorMessage(reqs[r].error, "Upload failed")
                /\ UNCHANGED syllabi
        /\ reqs' = Freed(r)
    /\ uploading' = FALSE
    /\ parsing' = FALSE
    /\ uploadPc' = "idle"
    /\ uploadFrom' = <<0, NullObj>>
    /\ Called("handleUpload: syllabi settled")
    /\ UNCHANGED events
    /\ UNCHANGED <<file, generating, syllabusId, parsedData, studyHours,
                   selectedDays, generatePc>>
    /\ UNCHANGED <<localStorage, keysUsed, href, currentPlan, plans, lastUpdate,
                   uploadFrame>>

\* The guard of handleGeneratePlan dropped.
NoSyllabus_Ignored(id) == FALSE

\* `if (!syllabusId) return;`
NoSyllabus(id) == id = 0

\* handleGeneratePlan up to its await.
HandleGeneratePlan ==
    /\ OnUploadPage
    /\ Called("handleGeneratePlan")
    /\ IF NoSyllabus(syllabusId)
       THEN UNCHANGED <<generating, error, generatePc, apiVars>>
       ELSE /\ generating' = TRUE
            /\ error' = ""
            /\ Send("/plans/generate", "handleGeneratePlan",
                    [syllabus_id |-> syllabusId,
                     study_hours_per_day |-> studyHours,
                     study_days |-> selectedDays])
            /\ generatePc' = "await generate"
            /\ UNCHANGED <<localStorage, href>>
    /\ UNCHANGED <<file, uploading, parsing, syllabusId, parsedData, studyHours,
                   selectedDays, uploadPc,
                   uploadFrom>>
    /\ UNCHANGED <<planVars, uploadFrame>>

\* handleGeneratePlan after `await plansAPI.generate(...)`.
GenerateSettled ==
    /\ \E r \in SettledOf("handleGeneratePlan") :
        /\ IF reqs[r].result = "resolved"
           THEN /\ plans' = <<reqs[r].response>> \o plans
                /\ href' = "/dashboard"
                /\ UNCHANGED error
           ELSE /\ error' = ErrorMessage(reqs[r].error, "Plan generation failed")
                /\ UNCHANGED <<plans, href>>
        /\ reqs' = Freed(r)
        /\ generatePc' =
              IF \E q \in Slots \ {r} : reqs[q].owner = "handleGeneratePlan"
              THEN "await generate" ELSE "idle"
    /\ generating' = FALSE
    /\ Called("handleGeneratePlan: settled")
    /\ UNCHANGED events
    /\ UNCHANGED <<file, uploading, parsing, syllabusId, parsedData, studyHours,
                   selectedDays, uploadPc,
                   uploadFrom>>
    /\ UNCHANGED <<localStorage, keysUsed, currentPlan, syllabi, lastUpdate,
                   uploadFrame>>

\* The positions the hours slider (min 1, max 8) is moved to.
HoursChosen == {"5"}

\* `parseInt(e.target.value)` on the slider's values, '1' to '8'.
ParseInt(value) ==
    CHOOSE n \in 1..8 : <<"1", "2", "3", "4", "5", "6", "7", "8">>[n] = value

\* The hours slider of the preferences card: setStudyHours(parseInt(value)).
SetStudyHours ==
    /\ OnUploadPage /\ PreferencesShown
    /\ \E v \in HoursChosen : studyHours' = ParseInt(v)
    /\ Called("setStudyHours")
    /\ UNCHANGED <<file, uploading, parsing, generating, syllabusId, parsedData,
                   error, selectedDays, uploadPc, uploadFrom, generatePc>>
    /\ UNCHANGED <<apiVars, planVars, uploadFrame>>

\* toggleDay: a selected day is filtered out, another is appended.
Toggled(days, day) ==
    IF \E i \in DOMAIN days : days[i] = day
    THEN SelectSeq(days, LAMBDA d : d # day)
    ELSE Append(days, day)

ToggleDay ==
    /\ OnUploadPage /\ PreferencesShown
    /\ \E day \in ToggledDays : selectedDays' = Toggled(selectedDays, day)
    /\ Called("toggleDay")
    /\ UNCHANGED <<file, uploading, parsing, generating, syllabusId, parsedData,
                   error, studyHours, uploadPc, uploadFrom,
                   generatePc>>
    /\ UNCHANGED <<apiVars, planVars, uploadFrame>>

\* -------------------------------------------------------- the dashboard

\* The statuses a user selects in the task modal; the other fields of the
\* form are left as they are.
StatusChoices == {"pending", "completed"}

\* The dashboard is mounted (it stays so while a navigation away from it is
\* pending), and it is past its loading screen.
OnDashboard == page = "dashboard"
DashboardShown == OnDashboard /\ ~loading

\* TaskModal renders (`if (!task) return null`, Dialog open={isOpen}).
ModalShown == DashboardShown /\ isModalOpen /\ selectedTask # NullObj

dashFrame == <<authVars, uploadVars>>

\* `console.error(message, error)` in a catch block.
ConsoleError(message) == console' = console \cup {message}

\* The error message the page holds in its state and renders: the upload
\* page's `error`; the dashboard has no such state.
PageError == IF page = "upload" THEN error ELSE ""

\* A promise continuation is due: a settled request whose awaiting code can
\* run. Promise.all of fetchData continues at the first rejection or when
\* both requests are fulfilled. Continuations are microtasks: they run
\* before the next server response or user event is handled.
FetchAll == {"fetchData: plans", "fetchData: syllabi"}

\* Promise.all taken to continue as soon as one of the requests settles.
FetchAllDue_First ==
    /\ fetchPc = "await all"
    /\ \E r \in Slots : reqs[r].owner \in FetchAll /\ reqs[r].state = "done"

FetchAllDue ==
    /\ fetchPc = "await all"
    /\ \/ \E r \in Slots : /\ reqs[r].owner \in FetchAll
                            /\ reqs[r].state = "done"
                            /\ reqs[r].result = "rejected"
       \/ \A o \in FetchAll : SettledOf(o) # {}
ContinuationDue ==
    \/ \E r \in Slots : reqs[r].state = "done" /\ reqs[r].owner \notin FetchAll
    \/ FetchAllDue

\* The guard of the effect without its look at the stored token.
NoSession_StoreOnly(authenticated, token) == ~authenticated

\* `if (!isAuthenticated && !token)`
NoSession(authenticated, token) == ~authenticated /\ ~Truthy(token)

\* The mount effect of the dashboard with fetchData up to its first await:
\* without a session the router goes to /login, otherwise both lists are
\* requested at once (Promise.all).
DashboardEffect ==
    /\ OnDashboard
    /\ fetchPc = "mount"
    /\ Called("useEffect")
    /\ UNCHANGED events
    /\ LET token == getItem(localStorage, "access_token") IN
       IF NoSession(isAuthenticated, token)
       THEN /\ href' = "/login"
            /\ fetchPc' = "redirected"
            /\ UNCHANGED reqs
       ELSE /\ Cardinality(FreeSlots) >= 2
            /\ reqs' = Sent(Sent(reqs, "/plans/", "fetchData: plans", NoData),
                            "/syllabus/", "fetchData: syllabi", NoData)
            /\ fetchPc' = "await all"
            /\ UNCHANGED href
    /\ keysUsed' = keysUsed \cup {"access_token"}
    /\ UNCHANGED <<localStorage, console, planVars, modalVars, dashFrame>>
    /\ UNCHANGED <<page, loading, progress, updatingTask, selectedTask,
                   isModalOpen, savePc>>

\* The slots of fetchData's two list requests given back; one still in
\* flight stays, its outcome ignored.
FetchAllReleased ==
    [r \in Slots |->
        IF reqs[r].owner \in FetchAll
        THEN IF reqs[r].state = "done" THEN IdleReq
             ELSE [reqs[r] EXCEPT !.owner = "ignored"]
        ELSE reqs[r]]

\* `x.list || []` on a response body.
ListOf(body, key) == IF key \in DOMAIN body THEN body[key] ELSE <<>>

\* setLoading(false) placed at the end of the try block: skipped when the
\* catch block has run.
FetchFinally_EndOfTry(caught) ==
    IF caught THEN UNCHANGED loading ELSE loading' = FALSE

\* `finally { setLoading(false); }`, run whether or not the catch block has.
FetchFinally(caught) == loading' = FALSE

\* fetchData after `await Promise.all([...])`.
FetchAllSettled ==
    /\ FetchAllDue
    /\ Called("fetchData: lists settled")
    /\ UNCHANGED events
    /\ IF \E r \in Slots : reqs[r].owner \in FetchAll /\ reqs[r].result = "rejected"
       THEN /\ ConsoleError("Failed to fetch data:")
            /\ FetchFinally(TRUE)
            /\ fetchPc' = "done"
            /\ reqs' = FetchAllReleased
            /\ UNCHANGED <<keysUsed, planVars>>
       ELSE LET plansRes ==
                    reqs[CHOOSE r \in Slots : reqs[r].owner = "fetchData: plans"].response
                syllabiRes ==
                    reqs[CHOOSE r \in Slots : reqs[r].owner = "fetchData: syllabi"].response
                list == ListOf(plansRes, "plans") IN
            /\ plans' = list
            /\ syllabi' = ListOf(syllabiRes, "syllabi")
            /\ UNCHANGED console
            /\ IF list # <<>>
               THEN /\ setCurrentPlan(list[1])
                    /\ reqs' = Sent(FetchAllReleased, "/plans/{id}/progress",
                                    "fetchData: progress",
                                    [plan_id |-> list[1].plan_id])
                    /\ keysUsed' = keysUsed \cup {"access_token"}
                    /\ fetchPc' = "await progress"
                    /\ UNCHANGED loading
               ELSE /\ reqs' = FetchAllReleased
                    /\ FetchFinally(FALSE)
                    /\ fetchPc' = "done"
                    /\ UNCHANGED <<keysUsed, currentPlan, lastUpdate>>
    /\ UNCHANGED <<localStorage, href, modalVars, dashFrame>>
    /\ UNCHANGED <<page, progress, updatingTask, selectedTask, isModalOpen, savePc>>

\* fetchData after `await plansAPI.getProgress(...)`.
FetchProgressSettled ==
    /\ fetchPc = "await progress"
    /\ \E r \in SettledOf("fetchData: progress") :
        /\ IF reqs[r].result = "resolved"
           THEN progress' = reqs[r].response /\ UNCHANGED console
           ELSE /\ ConsoleError("Failed to fetch data:")
                /\ UNCHANGED progress
        /\ FetchFinally(reqs[r].result # "resolved")
        /\ reqs' = Freed(r)
    /\ fetchPc' = "done"
    /\ Called("fetchData: progress settled")
    /\ UNCHANGED events
    /\ UNCHANGED <<localStorage, keysUsed, href, planVars, modalVars, dashFrame>>
    /\ UNCHANGED <<page, updatingTask, selectedTask, isModalOpen, savePc>>

\* A request nobody awaits any more has settled.
IgnoredSettled ==
    /\ \E r \in SettledOf("ignored") \cup SettledOf("unmounted fetchData") :
        reqs' = Freed(r)
    /\ UNCHANGED <<localStorage, keysUsed, href>>
    /\ Called("ignored: settled")
    /\ UNCHANGED events
    /\ UNCHANGED nonApiVars

\* handleTaskClick: a click on a task card of the first four weeks. The open
\* dialog covers the cards.
HandleTaskClick ==
    /\ DashboardShown /\ ~isModalOpen
    /\ currentPlan # NullObj
    /\ \E pos \in Positions(currentPlan) :
        /\ pos[1] <= 4
        /\ selectedTask' = TaskAt(currentPlan, pos)
    /\ isModalOpen' = TRUE
    /\ Called("handleTaskClick")
    /\ UNCHANGED <<page, loading, progress, updatingTask, fetchPc, savePc>>
    /\ UNCHANGED <<apiVars, console, planVars, modalVars, dashFrame>>

\* The status select of the modal.
SetStatus ==
    /\ ModalShown
    /\ \E v \in StatusChoices : status' = v
    /\ Called("setStatus")
    /\ UNCHANGED <<actualDuration, difficulty, notes, saving, optionalEdits>>
    /\ UNCHANGED <<apiVars, console, planVars, dashVars, dashFrame>>

\* The inputs a user makes to the three optional fields of the modal in a
\* session.
MaxOptionalEdits == 1

\* What is typed into the duration input, chosen in the difficulty select
\* and typed into the notes textarea.
DurationsTyped == {"30", ""}
DifficultyChoices == {"hard"}
NotesTyped == {"n1"}

\* `parseInt(value) || 0` on the strings typed: '' parses to NaN, which is
\* falsy.
ParseIntOrZero(value) ==
    CASE value = "30" -> 30
      [] OTHER -> 0

\* The duration input, rendered when the status is completed or in_progress.
SetActualDuration ==
    /\ ModalShown
    /\ status \in {"completed", "in_progress"}
    /\ \E v \in DurationsTyped : actualDuration' = ParseIntOrZero(v)
    /\ Called("setActualDuration")
    /\ optionalEdits < MaxOptionalEdits
    /\ optionalEdits' = optionalEdits + 1
    /\ UNCHANGED <<status, difficulty, notes, saving>>
    /\ UNCHANGED <<apiVars, console, planVars, dashVars, dashFrame>>

\* The difficulty select, rendered when the status is completed.
SetDifficulty ==
    /\ ModalShown
    /\ status = "completed"
    /\ \E v \in DifficultyChoices : difficulty' = v
    /\ Called("setDifficulty")
    /\ optionalEdits < MaxOptionalEdits
    /\ optionalEdits' = optionalEdits + 1
    /\ UNCHANGED <<status, actualDuration, notes, saving>>
    /\ UNCHANGED <<apiVars, console, planVars, dashVars, dashFrame>>

\* The notes textarea.
SetNotes ==
    /\ ModalShown
    /\ \E v \in NotesTyped : notes' = v
    /\ Called("setNotes")
    /\ optionalEdits < MaxOptionalEdits
    /\ optionalEdits' = optionalEdits + 1
    /\ UNCHANGED <<status, actualDuration, difficulty, saving>>
    /\ UNCHANGED <<apiVars, console, planVars, dashVars, dashFrame>>

\* onClose from the Cancel button or the dialog's onOpenChange.
CloseModal ==
    /\ ModalShown
    /\ isModalOpen' = FALSE
    /\ Called("onClose")
    /\ UNCHANGED <<page, loading, progress, updatingTask, selectedTask, fetchPc,
                   savePc>>
    /\ UNCHANGED <<apiVars, console, planVars, modalVars, dashFrame>>

\* `value || undefined` in handleSave.
OrUndefined(v) == IF Truthy(v) THEN v ELSE Undefined

\* JS undefined in the number-valued key of the updates (the durations typed
\* are positive).
UndefinedMinutes == -1

\* The updates object handleSave builds from the form; actualDuration 0 is
\* falsy.
FormUpdates ==
    [status |-> status,
     actual_duration_minutes |->
        IF actualDuration # 0 THEN actualDuration ELSE UndefinedMinutes,
     difficulty |-> OrUndefined(difficulty),
     notes |-> OrUndefined(notes)]

\* The end of a save without the finally block of handleTaskSave.
SaveFinished_NoFinally ==
    /\ UNCHANGED updatingTask
    /\ isModalOpen' = FALSE
    /\ saving' = FALSE
    /\ savePc' = "idle"

\* The end of handleTaskSave (finally) and then of handleSave, which awaited
\* it: onSave never rejects, so onClose runs, then setSaving(false).
SaveFinished ==
    /\ updatingTask' = Null
    /\ isModalOpen' = FALSE
    /\ saving' = FALSE
    /\ savePc' = "idle"

\* The optimistic update left out.
OptimisticUpdate_Skipped(taskId, updates) ==
    UNCHANGED <<currentPlan, plans, syllabi, lastUpdate>>

\* `updateTask(taskId, updates)` before the PUT is sent.
OptimisticUpdate(taskId, updates) == updateTask(taskId, updates)

\* The Save button: handleSave, and handleTaskSave up to its first await.
\* The button is disabled while saving.
HandleSave ==
    /\ ModalShown
    /\ ~saving /\ savePc = "idle"
    /\ Called("handleTaskSave")
    /\ LET taskId == selectedTask.id
           updates == FormUpdates IN
       IF currentPlan = NullObj
       THEN /\ isModalOpen' = FALSE
            /\ UNCHANGED <<saving, updatingTask, savePc, apiVars, planVars>>
       ELSE /\ saving' = TRUE
            /\ updatingTask' = taskId
            /\ OptimisticUpdate(taskId, updates)
            /\ Send("/plans/{id}/tasks/{id}", "handleTaskSave",
                    [plan_id |-> currentPlan.plan_id, task_id |-> taskId,
                     body |-> updates])
            /\ savePc' = "await put"
            /\ UNCHANGED <<isModalOpen, localStorage, href>>
    /\ UNCHANGED <<page, loading, progress, selectedTask, fetchPc>>
    /\ UNCHANGED <<status, actualDuration, difficulty, notes, optionalEdits>>
    /\ UNCHANGED <<console, dashFrame>>

\* handleTaskSave after `await plansAPI.updateTask(...)`.
PutSettled ==
    /\ savePc = "await put"
    /\ \E r \in SettledOf("handleTaskSave") :
        IF reqs[r].result = "resolved"
        THEN /\ reqs' = Sent(Freed(r), "/plans/{id}/progress", "handleTaskSave",
                             [plan_id |-> reqs[r].data.plan_id])
             /\ keysUsed' = keysUsed \cup {"access_token"}
             /\ savePc' = "await progress"
             /\ UNCHANGED <<console, updatingTask, isModalOpen, saving>>
        ELSE /\ ConsoleError("Failed to update task:")
             /\ reqs' = Freed(r)
             /\ SaveFinished
             /\ UNCHANGED keysUsed
    /\ Called("handleTaskSave: put settled")
    /\ UNCHANGED events
    /\ UNCHANGED <<page, loading, progress, selectedTask, fetchPc>>
    /\ UNCHANGED <<status, actualDuration, difficulty, notes, optionalEdits>>
    /\ UNCHANGED <<localStorage, href, planVars, dashFrame>>

\* handleTaskSave after `await plansAPI.getProgress(...)`.
SaveProgressSettled ==
    /\ savePc = "await progress"
    /\ \E r \in SettledOf("handleTaskSave") :
        /\ IF reqs[r].result = "resolved"
           THEN progress' = reqs[r].response /\ UNCHANGED console
           ELSE /\ ConsoleError("Failed to update task:")
                /\ UNCHANGED progress
        /\ reqs' = Freed(r)
    /\ SaveFinished
    /\ Called("handleTaskSave: progress settled")
    /\ UNCHANGED events
    /\ UNCHANGED <<page, loading, selectedTask, fetchPc>>
    /\ UNCHANGED <<status, actualDuration, difficulty, notes, optionalEdits>>
    /\ UNCHANGED <<localStorage, keysUsed, href, planVars, dashFrame>>

\* ------------------------------------------------- the pages with the api

\* Bound: the events of one session that come from outside the page, the
\* user's inputs and the server's failures together.
MaxEvents == 5

\* One more outside event happens, while the session has room for it.
Event ==
    /\ events < MaxEvents
    /\ events' = events + 1

\* A server answer or a user event is handled only when no continuation is
\* due. A failure (an error status, a network error) is an outside event, a
\* success is not.
PageRespond ==
    /\ ~ContinuationDue
    /\ \/ RespondWith({200}) /\ UNCHANGED events
       \/ RespondWith(Statuses \ {200}) /\ Event
PageRefreshOk == ~ContinuationDue /\ RefreshOkWith({"tB"})
PageRefreshFail == ~ContinuationDue /\ RefreshFailWith(Statuses \ {200}) /\ Event

\* A page is mounted, and has rendered, for a user whose tokens are both
\* stored or both gone; the persisted auth store may say either.
InitPage(route) ==
    /\ \E t \in {Null, "tA"} : InitStorageFrom({t}, {t})
    /\ page = route
    /\ isAuthenticated \in BOOLEAN
    /\ href = AfterRender(route, isAuthenticated,
                          IF route = "dashboard" THEN "/dashboard" ELSE "/upload")
    /\ user = (IF isAuthenticated THEN "u1" ELSE Null)
    /\ InitApi /\ InitPlanStore /\ InitDashboard /\ InitModal /\ InitUpload

UserHandleTaskClick == ~ContinuationDue /\ Event /\ HandleTaskClick
UserSetStatus == ~ContinuationDue /\ Event /\ SetStatus
UserCloseModal == ~ContinuationDue /\ Event /\ CloseModal
UserSetActualDuration == ~ContinuationDue /\ Event /\ SetActualDuration
UserSetDifficulty == ~ContinuationDue /\ Event /\ SetDifficulty
UserSetNotes == ~ContinuationDue /\ Event /\ SetNotes
UserHandleSave == ~ContinuationDue /\ Event /\ HandleSave
MountDashboard == ~ContinuationDue /\ DashboardEffect

\* ------------------------------------------- moving between the pages

\* router.push and window.location.href only set the path: the page that is
\* mounted stays mounted, and goes on handling events, until the page of
\* the new path mounts. /login has no page in this code base: a navigation
\* there stays pending.

\* The page component a path renders.
PageOf(path) ==
    CASE path = "/dashboard" -> "dashboard"
      [] path = "/upload" -> "upload"
      [] path = "/" -> "home"
      [] OTHER -> "login"

\* The Logout button with the effect that depends on isAuthenticated left
\* out.
LogoutRedirect_Never(wasAuthenticated) == FALSE

\* useEffect(..., [isAuthenticated]) after logout(): the effect runs again
\* only when isAuthenticated has changed, and then finds no session.
LogoutRedirect(wasAuthenticated) == wasAuthenticated

\* The dashboard's Logout button: useAuthStore.logout, then the effect.
DashLogout ==
    /\ Event
    /\ DashboardShown
    /\ ~ContinuationDue
    /\ localStorage' = ClearTokens(localStorage)
    /\ keysUsed' = keysUsed \cup {"access_token", "refresh_token"}
    /\ user' = Null
    /\ isAuthenticated' = FALSE
    /\ IF LogoutRedirect(isAuthenticated)
       THEN href' = "/login" /\ fetchPc' = "redirected"
       ELSE UNCHANGED <<href, fetchPc>>
    /\ Called("logout")
    /\ UNCHANGED <<page, loading, progress, updatingTask, selectedTask,
                   isModalOpen, savePc>>
    /\ UNCHANGED <<reqs, console, planVars, modalVars, uploadVars>>

\* The dashboard's Upload buttons: router.push('/upload').
GoToUpload ==
    /\ Event
    /\ DashboardShown
    /\ ~ContinuationDue
    /\ href' = "/upload"
    /\ Called("router.push: /upload")
    /\ UNCHANGED <<localStorage, keysUsed, reqs, console, authVars, planVars,
                   dashVars, modalVars, uploadVars>>

\* The upload page's Back button: router.push('/dashboard').
BackToDashboard ==
    /\ Event
    /\ OnUploadPage
    /\ ~ContinuationDue
    /\ href' = "/dashboard"
    /\ Called("router.push: /dashboard")
    /\ UNCHANGED <<localStorage, keysUsed, reqs, console, authVars, planVars,
                   dashVars, modalVars, uploadVars>>

\* DashboardPage and its TaskModal mount with their initial state.
DashboardMounted ==
    /\ page' = "dashboard"
    /\ loading' = TRUE
    /\ progress' = NullObj
    /\ updatingTask' = Null
    /\ selectedTask' = NullObj
    /\ isModalOpen' = FALSE
    /\ fetchPc' = "mount" /\ savePc' = "idle"
    /\ status' = "pending"
    /\ actualDuration' = 0
    /\ difficulty' = Null
    /\ notes' = ""
    /\ UNCHANGED optionalEdits
    /\ saving' = FALSE

\* UploadPage mounts with its initial state.
UploadMounted ==
    /\ page' = "upload"
    /\ file' = NullObj
    /\ uploading' = FALSE /\ parsing' = FALSE /\ generating' = FALSE
    /\ syllabusId' = 0
    /\ parsedData' = NullObj
    /\ error' = ""
    /\ studyHours' = 3
    /\ selectedDays' = <<"monday", "tuesday", "wednesday", "thursday", "friday">>
    /\ uploadPc' = "idle" /\ generatePc' = "idle"
    /\ uploadFrom' = <<0, NullObj>>

\* The flow a request belongs to once its page is unmounted: its awaiting
\* code still runs when it settles, with the setters of the unmounted
\* component doing nothing.
UnmountedOwner(owner) ==
    CASE owner = "handleTaskSave" -> "unmounted handleTaskSave"
      [] owner = "handleUpload" -> "unmounted handleUpload"
      [] owner = "handleGeneratePlan" -> "unmounted handleGeneratePlan"
      [] owner = "ignored" -> "unmounted fetchData"
      [] OTHER -> owner

\* A pending navigation arrives: the mounted page is unmounted and the page
\* of the path mounts and renders.
Navigate ==
    /\ ~ContinuationDue
    /\ href \in {"/dashboard", "/upload"}
    /\ page \in {"home", "dashboard", "upload"}
    /\ page # PageOf(href)
    /\ UNCHANGED events
    /\ reqs' = [r \in Slots |->
                    [reqs[r] EXCEPT !.owner = UnmountedOwner(reqs[r].owner)]]
    /\ IF href = "/dashboard"
       THEN DashboardMounted /\ UNCHANGED uploadVars
       ELSE /\ UploadMounted
            /\ UNCHANGED <<loading, progress, updatingTask, selectedTask,
                           isModalOpen, fetchPc, savePc, modalVars>>
    /\ href' = AfterRender(PageOf(href), isAuthenticated, href)
    /\ Called("navigate")
    /\ UNCHANGED <<localStorage, keysUsed, console, authVars, planVars>>

\* handleTaskSave of an unmounted dashboard after one of its awaits: the
\* progress is still asked for after a fulfilled PUT, a failure is still
\* logged.
UnmountedSaveSettled ==
    /\ \E r \in SettledOf("unmounted handleTaskSave") :
        IF reqs[r].result = "resolved"
        THEN /\ UNCHANGED console
             /\ IF reqs[r].url = "/plans/{id}/tasks/{id}"
                THEN /\ reqs' = Sent(Freed(r), "/plans/{id}/progress",
                                     "unmounted handleTaskSave",
                                     [plan_id |-> reqs[r].data.plan_id])
                     /\ keysUsed' = keysUsed \cup {"access_token"}
                ELSE reqs' = Freed(r) /\ UNCHANGED keysUsed
        ELSE /\ ConsoleError("Failed to update task:")
             /\ reqs' = Freed(r)
             /\ UNCHANGED keysUsed
    /\ Called("unmounted handleTaskSave: settled")
    /\ UNCHANGED events
    /\ UNCHANGED <<localStorage, href, authVars, planVars, dashVars, modalVars,
                   uploadVars>>

\* handleUpload of an unmounted upload page after one of its awaits: the
\* syllabi are still asked for and stored (the mounted page, a subscriber of
\* the plan store, renders again); a failure is caught, its message set on
\* the component that is gone.
UnmountedUploadSettled ==
    /\ \E r \in SettledOf("unmounted handleUpload") :
        IF reqs[r].result = "resolved" /\ reqs[r].url = "/syllabus/upload"
        THEN /\ reqs' = Sent(Freed(r), "/syllabus/", "unmounted handleUpload",
                             NoData)
             /\ keysUsed' = keysUsed \cup {"access_token"}
             /\ UNCHANGED <<syllabi, href>>
        ELSE /\ reqs' = Freed(r)
             /\ UNCHANGED keysUsed
             /\ IF reqs[r].result = "resolved"
                THEN /\ syllabi' = ListOf(reqs[r].response, "syllabi")
                     /\ href' = AfterRender(page, isAuthenticated, href)
                ELSE UNCHANGED <<syllabi, href>>
    /\ Called("unmounted handleUpload: settled")
    /\ UNCHANGED events
    /\ UNCHANGED <<localStorage, console, authVars, currentPlan, plans,
                   lastUpdate, dashVars, modalVars, uploadVars>>

\* handleGeneratePlan of an unmounted upload page after its await: the plan
\* is still added and the router still pushed (the mounted page renders
\* after that); a failure is caught, its message set on the component that
\* is gone.
UnmountedGenerateSettled ==
    /\ \E r \in SettledOf("unmounted handleGeneratePlan") :
        /\ IF reqs[r].result = "resolved"
           THEN /\ plans' = <<reqs[r].response>> \o plans
                /\ href' = AfterRender(page, isAuthenticated, "/dashboard")
           ELSE UNCHANGED <<plans, href>>
        /\ reqs' = Freed(r)
    /\ Called("unmounted handleGeneratePlan: settled")
    /\ UNCHANGED events
    /\ UNCHANGED <<localStorage, keysUsed, console, authVars, currentPlan,
                   syllabi, lastUpdate, dashVars, modalVars, uploadVars>>

\* The dashboard of a logged-in user: the store says so and both tokens are
\* stored. (SpecSession and SpecRoutes start from the other sessions too.)
InitDashboardSpec ==
    /\ InitPage("dashboard")
    /\ isAuthenticated
    /\ Truthy(getItem(localStorage, "access_token"))

UserHandleFileChange == ~ContinuationDue /\ Event /\ HandleFileChange
UserHandleDrop == ~ContinuationDue /\ Event /\ HandleDrop
UserRemoveFile == ~ContinuationDue /\ Event /\ RemoveFile

\* handleUpload is called by the Upload button of the file card, which takes
\* a press only while enabled; where the card is not rendered the call is
\* the one the handler's own guard is for.
UserHandleUpload ==
    /\ ~ContinuationDue
    /\ Event
    /\ UploadButtonShown => UploadButtonEnabled
    /\ HandleUpload

\* handleGeneratePlan is called by the Generate button, which takes a press
\* only while enabled; where the preferences card is not rendered the call
\* is the one the handler's own guard is for.
UserHandleGeneratePlan ==
    /\ ~ContinuationDue
    /\ Event
    /\ PreferencesShown => GenerateButtonEnabled
    /\ HandleGeneratePlan

UserToggleDay == ~ContinuationDue /\ Event /\ ToggleDay
UserSetStudyHours == ~ContinuationDue /\ Event /\ SetStudyHours

InitUploadSpec == InitPage("upload")

\* Everything that happens on the two pages and between them: the server's
\* answers, the continuations of the flows, the user's inputs, the router.
NextPages ==
    \/ PageRespond
    \/ PageRefreshOk
    \/ PageRefreshFail
    \/ IgnoredSettled
    \/ MountDashboard
    \/ FetchAllSettled
    \/ FetchProgressSettled
    \/ UserHandleTaskClick
    \/ UserSetStatus
    \/ UserSetActualDuration
    \/ UserSetDifficulty
    \/ UserSetNotes
    \/ UserCloseModal
    \/ UserHandleSave
    \/ PutSettled
    \/ SaveProgressSettled
    \/ DashLogout
    \/ GoToUpload
    \/ UserHandleFileChange
    \/ UserHandleDrop
    \/ UserRemoveFile
    \/ UserHandleUpload
    \/ UploadSettled
    \/ SyllabiSettled
    \/ UserHandleGeneratePlan
    \/ GenerateSettled
    \/ UserToggleDay
    \/ UserSetStudyHours
    \/ BackToDashboard
    \/ Navigate
    \/ UnmountedSaveSettled
    \/ UnmountedUploadSettled
    \/ UnmountedGenerateSettled

\* The session opened on the dashboard, and the session opened on the upload
\* page.
SpecDashboard == InitDashboardSpec /\ [][NextPages]_vars

SpecUpload == InitUploadSpec /\ [][NextPages]_vars

\* C8: with no file selected the upload button is not rendered, and a run of
\* handleUpload with file = null sends no request and leaves uploading,
\* parsing, error, syllabusId and parsedData (and the flow's position) as
\* they were.
C8_NoFileNoUpload ==
    [][/\ file' = NullObj => ~UploadButtonShown'
       /\ (lastCall' = "handleUpload" /\ file = NullObj) =>
            /\ reqs' = reqs
            /\ UNCHANGED <<uploading, parsing, error, syllabusId, parsedData>>
            /\ UNCHANGED <<uploadPc, file, localStorage, href>>]_vars

\* handleUpload has just run without a file while an earlier failure's
\* message and an earlier upload's results were on the page.
C8_Witness ==
    /\ lastCall = "handleUpload"
    /\ file = NullObj
    /\ error = "Upload failed"
    /\ syllabusId # 0
    /\ \A r \in Slots : reqs[r].owner # "handleUpload"

\* C9 as stated: a rejected network step of handleUpload or
\* handleGeneratePlan leaves a non-empty error, the flow's flags false and
\* the flow over; after a fulfilled step of either flow error is empty.
C9_Original ==
    [][/\ lastCall' \in {"handleUpload: upload settled",
                         "handleUpload: syllabi settled"} =>
            \A r \in SettledOf("handleUpload") :
                IF reqs[r].result = "rejected"
                THEN /\ error' # ""
                     /\ ~uploading' /\ ~parsing'
                     /\ \A q \in Slots : reqs'[q].owner # "handleUpload"
                ELSE error' = ""
       /\ lastCall' = "handleGeneratePlan: settled" =>
            \A r \in SettledOf("handleGeneratePlan") :
                IF reqs[r].result = "rejected"
                THEN /\ error' # ""
                     /\ ~generating'
                     /\ \A q \in Slots : reqs'[q].owner # "handleGeneratePlan"
                ELSE error' = ""]_vars

\* C9: on the mounted page a rejected network step of handleUpload or
\* handleGeneratePlan sets error to the server's detail when that is truthy
\* and to the flow's fallback otherwise (non-empty either way), resets the
\* flow's flags, and ends the flow: it sends nothing more and stores nothing
\* more. A flow clears error when it starts and a fulfilled step does not
\* write it: after a fulfilled step error is what it was, empty or the
\* message the other flow's failure has put there meanwhile. A flow whose
\* page has been unmounted still catches a rejected step and ends there, but
\* no page state is left to take the message: nothing of the mounted page,
\* the stores or the console changes.
C9_FlowFailuresCaught ==
    [][/\ (lastCall' = "handleUpload" /\ file # NullObj) => error' = ""
       /\ (lastCall' = "handleGeneratePlan" /\ syllabusId # 0) => error' = ""
       /\ lastCall' \in {"handleUpload: upload settled",
                         "handleUpload: syllabi settled"} =>
            \A r \in SettledOf("handleUpload") :
                IF reqs[r].result = "rejected"
                THEN /\ error' = (IF reqs[r].error.detail \in {Null, ""}
                                  THEN "Upload failed"
                                  ELSE reqs[r].error.detail)
                     /\ error' # ""
                     /\ ~uploading' /\ ~parsing'
                     /\ uploadPc' = "idle"
                     /\ \A q \in Slots : reqs'[q].owner # "handleUpload"
                     /\ UNCHANGED <<syllabusId, parsedData, syllabi>>
                ELSE /\ error' = error
                     /\ error \in {"", "Plan generation failed", "generate detail"}
       /\ lastCall' = "handleGeneratePlan: settled" =>
            \A r \in SettledOf("handleGeneratePlan") :
                IF reqs[r].result = "rejected"
                THEN /\ error' = (IF reqs[r].error.detail \in {Null, ""}
                                  THEN "Plan generation failed"
                                  ELSE reqs[r].error.detail)
                     /\ error' # ""
                     /\ ~generating'
                     /\ generatePc' = "idle"
                     /\ \A q \in Slots : reqs'[q].owner # "handleGeneratePlan"
                     /\ UNCHANGED <<plans, href>>
                ELSE /\ error' = error
                     /\ error \in {"", "Upload failed", "upload detail"}
       /\ lastCall' \in {"unmounted handleUpload: settled",
                         "unmounted handleGeneratePlan: settled"} =>
            /\ UNCHANGED <<uploadVars, console>>
            /\ \A r \in SettledOf("unmounted handleUpload")
                        \cup SettledOf("unmounted handleGeneratePlan") :
                reqs[r].result = "rejected" =>
                    /\ reqs' = Freed(r)
                    /\ UNCHANGED <<plans, syllabi, href>>]_vars

\* The upload succeeded and the refresh of the syllabi list then failed
\* without a detail: the fallback is shown, the flags are down, the flow is
\* over.
C9_Witness ==
    /\ lastCall = "handleUpload: syllabi settled"
    /\ error = "Upload failed"
    /\ syllabusId # 0
    /\ ~uploading /\ ~parsing
    /\ uploadPc = "idle"

\* C3: handleTaskSave writes the update into the store in the step that
\* sends the PUT, so the PUT is still unanswered when currentPlan holds the
\* new values; when the PUT is rejected currentPlan is left as it is, the
\* edited task still carrying every value that was sent; and nothing but a
\* save or the initial fetch ever writes currentPlan.
C3_OptimisticNoRollback ==
    [][/\ (lastCall' = "handleTaskSave" /\ currentPlan # NullObj) =>
            /\ currentPlan' = UpdatedPlan(currentPlan, selectedTask.id, FormUpdates)
            /\ \E r \in Slots :
                /\ reqs'[r].owner = "handleTaskSave"
                /\ reqs'[r].url = "/plans/{id}/tasks/{id}"
                /\ reqs'[r].state = "sent"
                /\ reqs'[r].data.body = FormUpdates
       /\ lastCall' = "handleTaskSave: put settled" =>
            \A r \in SettledOf("handleTaskSave") :
                reqs[r].result = "rejected" =>
                    /\ currentPlan' = currentPlan
                    /\ \A pos \in Positions(currentPlan') :
                        TaskAt(currentPlan', pos).id = reqs[r].data.task_id =>
                            \A k \in DOMAIN reqs[r].data.body :
                                TaskAt(currentPlan', pos)[k] = reqs[r].data.body[k]
       /\ currentPlan' # currentPlan =>
            lastCall' \in {"handleTaskSave", "fetchData: lists settled"}]_vars

\* A PUT has just been rejected and the task the modal was opened on still
\* has the status of the form, not the one it had when it was clicked.
C3_Witness ==
    /\ lastCall = "handleTaskSave: put settled"
    /\ savePc = "idle"
    /\ "Failed to update task:" \in console
    /\ selectedTask # NullObj
    /\ currentPlan # NullObj
    /\ selectedTask.status # status
    /\ \E pos \in Positions(currentPlan) :
        /\ TaskAt(currentPlan, pos).id = selectedTask.id
        /\ TaskAt(currentPlan, pos).status = status

\* ------------------------------------------------------------ both pages

\* The session opened on either page.
InitPagesSpec == InitDashboardSpec \/ InitUploadSpec

SpecPages == InitPagesSpec /\ [][NextPages]_vars

\* C10 as stated: whenever a page flow's request has failed, the page holds
\* a non-empty error message once the flow has handled the failure.
C10_Original ==
    [][(/\ lastCall' \in {"handleUpload: upload settled",
                          "handleUpload: syllabi settled",
                          "handleGeneratePlan: settled",
                          "fetchData: lists settled",
                          "fetchData: progress settled",
                          "handleTaskSave: put settled",
                          "handleTaskSave: progress settled"}
        /\ \E r \in Slots : /\ reqs[r].state = "done"
                            /\ reqs[r].owner # "ignored"
                            /\ reqs[r].result = "rejected")
       => PageError' # ""]_vars

\* ------------------------------------------------------ the auth functions

authFrame == <<console, planVars, dashVars, modalVars, uploadVars>>

\* authAPI.login up to its await: POST /auth/login through api. The function
\* has no guard of its own: calls overlap, up to the MaxCallers requests the
\* callers keep in flight.
AuthLogin ==
    /\ Cardinality(Slots \ FreeSlots) < MaxCallers
    /\ Send("/auth/login", "authAPI.login",
            [email |-> "a@b.c", password |-> "pw"])
    /\ Called("authAPI.login")
    /\ UNCHANGED events
    /\ UNCHANGED <<localStorage, href, authVars, authFrame>>

\* authAPI.login after the await: both tokens of the response are stored;
\* a rejection goes to the caller.
AuthLoginSettled ==
    /\ \E r \in SettledOf("authAPI.login") :
        /\ IF reqs[r].result = "resolved"
           THEN /\ localStorage' =
                    setItem(setItem(localStorage, "access_token",
                                    reqs[r].response.access_token),
                            "refresh_token", reqs[r].response.refresh_token)
                /\ keysUsed' = keysUsed \cup {"access_token", "refresh_token"}
           ELSE UNCHANGED <<localStorage, keysUsed>>
        /\ reqs' = Freed(r)
    /\ Called("authAPI.login: settled")
    /\ UNCHANGED events
    /\ UNCHANGED <<href, authVars, authFrame>>

\* authAPI.signup up to its await: POST /auth/signup through api (calls
\* overlap as those of login do).
AuthSignup ==
    /\ Cardinality(Slots \ FreeSlots) < MaxCallers
    /\ Send("/auth/signup", "authAPI.signup",
            [email |-> "a@b.c", password |-> "pw", full_name |-> "A B"])
    /\ Called("authAPI.signup")
    /\ UNCHANGED events
    /\ UNCHANGED <<localStorage, href, authVars, authFrame>>

\* authAPI.signup after the await: response.data goes to the caller, and so
\* does a rejection; nothing is stored.
AuthSignupSettled ==
    /\ \E r \in SettledOf("authAPI.signup") : reqs' = Freed(r)
    /\ Called("authAPI.signup: settled")
    /\ UNCHANGED events
    /\ UNCHANGED <<localStorage, keysUsed, href, authVars, authFrame>>

\* authAPI.logout.
AuthLogout ==
    /\ localStorage' = ClearTokens(localStorage)
    /\ keysUsed' = keysUsed \cup {"access_token", "refresh_token"}
    /\ Called("authAPI.logout")
    /\ UNCHANGED events
    /\ UNCHANGED <<href, reqs, authVars, authFrame>>

\* isAuthenticated set whoever the user is.
IsAuthenticatedFor_Always(u) == TRUE

\* `isAuthenticated: !!user`
IsAuthenticatedFor(u) == Truthy(u)

\* useAuthStore.setUser.
StoreSetUser ==
    /\ \E u \in {Null, "u1"} :
        /\ user' = u
        /\ isAuthenticated' = IsAuthenticatedFor(u)
    /\ Called("setUser")
    /\ UNCHANGED events
    /\ UNCHANGED <<apiVars, authFrame>>

\* useAuthStore.logout.
StoreLogout ==
    /\ localStorage' = ClearTokens(localStorage)
    /\ keysUsed' = keysUsed \cup {"access_token", "refresh_token"}
    /\ user' = Null
    /\ isAuthenticated' = FALSE
    /\ Called("logout")
    /\ UNCHANGED events
    /\ UNCHANGED <<href, reqs, authFrame>>

\* What getAuthToken returns, in a browser (`window` defined) or not.
getAuthToken(store, hasWindow) ==
    IF ~hasWindow THEN Null ELSE getItem(store, "auth_token")

\* The key lib/auth.ts keeps its token under.
AuthTokenKey == "auth_token"

\* getAuthToken of lib/auth.ts: a read of the storage in a browser.
GetAuthToken ==
    /\ \E hasWindow \in BOOLEAN :
        keysUsed' = IF hasWindow THEN keysUsed \cup {AuthTokenKey} ELSE keysUsed
    /\ Called("getAuthToken")
    /\ UNCHANGED events
    /\ UNCHANGED <<localStorage, href, reqs, authVars, authFrame>>

\* setAuthToken of lib/auth.ts: a write of the storage in a browser.
SetAuthToken ==
    /\ \E hasWindow \in BOOLEAN, token \in Tokens :
        IF hasWindow
        THEN /\ localStorage' = setItem(localStorage, AuthTokenKey, token)
             /\ keysUsed' = keysUsed \cup {AuthTokenKey}
        ELSE UNCHANGED <<localStorage, keysUsed>>
    /\ Called("setAuthToken")
    /\ UNCHANGED events
    /\ UNCHANGED <<href, reqs, authVars, authFrame>>

AuthRespond == ~ContinuationDue /\ Respond
AuthRefreshOk == ~ContinuationDue /\ RefreshOkWith({"tB"})
AuthRefreshFail == ~ContinuationDue /\ RefreshFail

InitAuthSpec ==
    /\ InitStorageFrom({Null}, {Null})
    /\ href = "/login"
    /\ page = "none"
    /\ InitApi /\ InitAuthStore /\ InitPlanStore
    /\ InitDashboard /\ InitModal /\ InitUpload

NextAuth ==
    \/ AuthLogin
    \/ AuthRespond
    \/ AuthRefreshOk
    \/ AuthRefreshFail
    \/ AuthLoginSettled
    \/ AuthSignup
    \/ AuthSignupSettled
    \/ CallerSend
    \/ CallerSettled
    \/ AuthLogout
    \/ StoreSetUser
    \/ StoreLogout
    \/ GetAuthToken
    \/ SetAuthToken

SpecAuth == InitAuthSpec /\ [][NextAuth]_vars

\* C5 as stated: every key of the storage a token is read from, written to
\* or removed from is access_token or refresh_token, and no token is kept
\* under any other key.
C5_FixedKeys ==
    /\ keysUsed \subseteq {"access_token", "refresh_token"}
    /\ \A k \in StorageKeys \ {"access_token", "refresh_token"} :
        localStorage[k] = Null

\* ------------------------------------------------- requests of one flow

\* The requests of the given owners that are on the wire or in a refresh.
InFlight(owners) ==
    {r \in Slots : reqs[r].owner \in owners /\ reqs[r].state \in {"sent", "refreshing"}}

\* C11 as stated: every page flow, the dashboard's initial fetch included,
\* has at most one request in flight.
C11_Original ==
    /\ Cardinality(InFlight(FetchAll \cup {"ignored", "fetchData: progress"})) <= 1
    /\ Cardinality(InFlight({"handleTaskSave"})) <= 1
    /\ Cardinality(InFlight({"handleUpload"})) <= 1
    /\ Cardinality(InFlight({"handleGeneratePlan"})) <= 1

\* C11: task save, upload and generate each have at most one request in
\* flight. The initial fetch has its two list requests in flight together
\* and its progress request only when neither list request is in flight any
\* more; while it awaits the lists both have been issued.
C11_SequentialButFetch ==
    /\ Cardinality(InFlight({"handleTaskSave"})) <= 1
    /\ Cardinality(InFlight({"handleUpload"})) <= 1
    /\ Cardinality(InFlight({"handleGeneratePlan"})) <= 1
    /\ Cardinality(InFlight(FetchAll)) <= 2
    /\ Cardinality(InFlight({"fetchData: progress"})) <= 1
    /\ InFlight({"fetchData: progress"}) # {} => InFlight(FetchAll \cup {"ignored"}) = {}
    /\ fetchPc = "await all" =>
        \A o \in FetchAll : \E r \in Slots : reqs[r].owner = o /\ reqs[r].state # "idle"

\* Both list requests of the initial fetch are on the wire at once.
C11_Witness ==
    /\ fetchPc = "await all"
    /\ \A o \in FetchAll : \E r \in Slots : reqs[r].owner = o /\ reqs[r].state = "sent"

\* C12: syllabusId is written only by a fulfilled upload step, which stores
\* the syllabus_id of its response, and by the mount of the page, which
\* starts a page session with syllabusId null; so it is null until an upload
\* of the page session has succeeded and then the id of the latest successful
\* upload; a run of handleGeneratePlan with syllabusId null sends nothing and
\* changes no state, and with a syllabusId it sends POST /plans/generate
\* carrying it.
C12_GenerateAfterUpload ==
    [][/\ syllabusId' # syllabusId =>
            \/ lastCall' = "handleUpload: upload settled"
            \/ lastCall' = "navigate" /\ page' = "upload" /\ syllabusId' = 0
       /\ lastCall' = "handleUpload: upload settled" =>
            \A r \in SettledOf("handleUpload") :
                reqs[r].result = "resolved" =>
                    syllabusId' = reqs[r].response.syllabus_id
       /\ (lastCall' = "handleGeneratePlan" /\ syllabusId = 0) =>
            /\ reqs' = reqs
            /\ UNCHANGED <<generating, error, generatePc, localStorage, href>>
            /\ UNCHANGED <<file, uploading, parsing, syllabusId, parsedData,
                           studyHours, selectedDays, uploadPc, uploadFrom,
                           planVars>>
       /\ (lastCall' = "handleGeneratePlan" /\ syllabusId # 0) =>
            \E r \in Slots :
                /\ reqs[r].state = "idle"
                /\ reqs'[r].owner = "handleGeneratePlan"
                /\ reqs'[r].url = "/plans/generate"
                /\ reqs'[r].state = "sent"
                /\ reqs'[r].data.syllabus_id = syllabusId
       /\ \A r \in Slots :
            reqs'[r].url = "/plans/generate" => reqs'[r].data.syllabus_id # 0]_vars

\* A generate request has just been sent with the id of the second upload.
C12_Witness ==
    /\ lastCall = "handleGeneratePlan"
    /\ syllabusId = 2
    /\ \E r \in Slots :
        /\ reqs[r].url = "/plans/generate"
        /\ reqs[r].state = "sent"
        /\ reqs[r].data.syllabus_id = 2

\* ------------------------------------------------- the refresh outcomes

\* C13: the step in which a request's refresh fails leaves neither token in
\* storage, sets the location to /login, and settles the request as rejected
\* with the refresh call's error, without another send.
C13_RefreshFailureLogsOut ==
    [][\A r \in Slots :
        (reqs[r].state = "refreshing" /\ reqs'[r].state = "done") =>
            /\ localStorage'["access_token"] = Null
            /\ localStorage'["refresh_token"] = Null
            /\ href' = "/login"
            /\ reqs'[r].result = "rejected"
            /\ reqs'[r].error.from = "refresh"
            /\ reqs'[r].sends = reqs[r].sends
            /\ reqs'[r].sends = 1
      ]_vars

\* A refresh has just failed with a server error: the request is rejected
\* with that error after its single send, the tokens are gone, the location
\* is /login.
C13_Witness ==
    /\ lastCall = "api: refresh failed"
    /\ href = "/login"
    /\ localStorage["access_token"] = Null
    /\ localStorage["refresh_token"] = Null
    /\ \E r \in Slots :
        /\ reqs[r].state = "done"
        /\ reqs[r].result = "rejected"
        /\ reqs[r].error = Err("refresh", 500, Null)
        /\ reqs[r].sends = 1

\* C14: an error response starts a refresh exactly when its status is 401,
\* the request has not been retried and a refresh_token is stored; any other
\* error response settles the request as rejected with the error of that
\* response and leaves storage and location as they were. Nothing else
\* starts a refresh.
C14_RefreshOnlyWhen ==
    [][\A r \in Slots :
        LET a == reqs[r]
            b == reqs'[r] IN
        /\ (a.state = "sent" /\ b.state # "sent" /\ b.status # 200) =>
              IF b.status = 401 /\ ~a._retry /\ localStorage["refresh_token"] # Null
              THEN /\ b.state = "refreshing"
                   /\ b.refreshes = a.refreshes + 1
              ELSE /\ b.state = "done"
                   /\ b.result = "rejected"
                   /\ b.error.from = "request"
                   /\ b.error.status = b.status
                   /\ b.refreshes = a.refreshes
                   /\ localStorage' = localStorage
                   /\ href' = href
        /\ b.refreshes > a.refreshes =>
              /\ a.state = "sent"
              /\ b.status = 401
              /\ ~a._retry
              /\ localStorage["refresh_token"] # Null
      ]_vars

\* A request failed without a response while both tokens were stored: it is
\* rejected with that error, never refreshed, and the tokens and the location
\* are untouched.
C14_Witness ==
    /\ href = "/"
    /\ localStorage["access_token"] # Null
    /\ localStorage["refresh_token"] # Null
    /\ \E r \in Slots :
        /\ reqs[r].state = "done"
        /\ reqs[r].result = "rejected"
        /\ reqs[r].error = Err("request", 0, Null)
        /\ reqs[r].refreshes = 0
        /\ ~reqs[r]._retry

\* C15: the step in which a request's refresh succeeds stores the returned
\* access_token, leaves refresh_token as it was and puts the request on the
\* wire again with 'Bearer ' + that token; the re-sent request is then
\* settled by its own response: fulfilled with the body on 200, rejected
\* with that response's error otherwise, never refreshed again.
C15_RefreshSuccessRetries ==
    [][\A r \in Slots :
        LET a == reqs[r]
            b == reqs'[r] IN
        /\ (a.state = "refreshing" /\ b.state = "sent") =>
              /\ b.refreshed \in Tokens
              /\ localStorage'["access_token"] = b.refreshed
              /\ localStorage'["refresh_token"] = localStorage["refresh_token"]
              /\ b.sends = a.sends + 1
              /\ b.Authorization = Bearer(b.refreshed)
              /\ href' = href
        /\ (a.state = "sent" /\ a.sends = 2 /\ b.state # "sent") =>
              /\ b.state = "done"
              /\ IF b.status = 200
                 THEN b.result = "resolved" /\ b.response \in ResponsesOf(b.url)
                 ELSE /\ b.result = "rejected"
                      /\ b.error.from = "request"
                      /\ b.error.status = b.status
      ]_vars

\* A request was refreshed with a new token, re-sent with it and fulfilled;
\* storage holds the new access token and the old refresh token.
C15_Witness ==
    /\ localStorage["access_token"] = "tB"
    /\ localStorage["refresh_token"] = "tA"
    /\ \E r \in Slots :
        /\ reqs[r].state = "done"
        /\ reqs[r].result = "resolved"
        /\ reqs[r].sends = 2
        /\ reqs[r].refreshed = "tB"
        /\ reqs[r].Authorization = Bearer("tB")

\* C16 as stated: once the interceptor has logged the user out (neither
\* token stored, location /login, and the store still authenticated: the
\* Logout button has not been pressed), no step of a request still in
\* flight stores an access_token again. The dashboard has no login.
C16_NoTokenAfterLogout ==
    [][(/\ href = "/login"
        /\ isAuthenticated
        /\ localStorage["access_token"] = Null
        /\ localStorage["refresh_token"] = Null)
       => localStorage'["access_token"] = Null]_vars

\* C17 as stated: after the step in which the interceptor logs the user out
\* (a failed refresh) the auth store is unauthenticated, and in every state
\* it leaves isAuthenticated implies a stored access_token.
C17_LogoutClearsStore ==
    [][lastCall' = "api: refresh failed" =>
        /\ user' = Null
        /\ ~isAuthenticated'
        /\ (isAuthenticated' => localStorage'["access_token"] # Null)]_vars

\* C18 as stated: no step of a login call that is not fulfilled changes
\* access_token or refresh_token, and the call makes no refresh and sends
\* nothing beyond its one POST /auth/login.
C18_RejectedLoginNoEffect ==
    [][\A r \in Slots :
        LET a == reqs[r]
            b == reqs'[r] IN
        (/\ b # a
         /\ "authAPI.login" \in {a.owner, b.owner}
         /\ a.result # "resolved" /\ b.result # "resolved") =>
            /\ localStorage'["access_token"] = localStorage["access_token"]
            /\ localStorage'["refresh_token"] = localStorage["refresh_token"]
            /\ b.refreshes = 0
            /\ b.sends <= 1
            /\ href' = href
      ]_vars

\* ---------------------------------------------------------- the modal

\* C19 as stated: the step that opens the modal on a task leaves the form's
\* status equal to that task's status, and a save that follows the opening
\* directly, with no edit between, leaves the status of the task as it was.
C19_FormStartsFromTask ==
    [][/\ lastCall' = "handleTaskClick" => status' = selectedTask'.status
       /\ (lastCall = "handleTaskClick" /\ lastCall' = "handleTaskSave"
           /\ currentPlan # NullObj) =>
            \A pos \in Positions(currentPlan) :
                TaskAt(currentPlan, pos).id = selectedTask.id =>
                    TaskAt(currentPlan', pos).status = TaskAt(currentPlan, pos).status
      ]_vars

\* C20 as stated: when the PUT of a save is rejected the modal is as open
\* as it was and saving is false again; a save closes the modal only in a
\* step that follows an accepted PUT; and a save is started only when none is
\* in flight.
C20_ClosesOnlyOnSuccess ==
    [][/\ lastCall' = "handleTaskSave: put settled" =>
            \A r \in SettledOf("handleTaskSave") :
                reqs[r].result = "rejected" =>
                    /\ isModalOpen' = isModalOpen
                    /\ ~saving'
       /\ (lastCall' = "handleTaskSave" /\ currentPlan # NullObj) =>
            /\ ~saving /\ saving'
            /\ InFlight({"handleTaskSave"}) = {}
      ]_vars

\* A session opened on the dashboard, with or without a login: everything
\* the two pages do; the plan store lives through it all.
InitSessionSpec == InitPage("dashboard")

SpecSession == InitSessionSpec /\ [][NextPages]_vars

\* The step in which fetchData ends without entering its catch: the lists
\* have arrived and are empty, or the progress has arrived.
FetchDataSucceeds ==
    /\ fetchPc # "done" /\ fetchPc' = "done"
    /\ \/ /\ lastCall' = "fetchData: lists settled"
          /\ \A r \in Slots : reqs[r].owner \in FetchAll => reqs[r].result = "resolved"
       \/ /\ lastCall' = "fetchData: progress settled"
          /\ \E r \in SettledOf("fetchData: progress") : reqs[r].result = "resolved"

\* C21 as stated: when fetchData has completed successfully, currentPlan is
\* the first plan of the fetched list if that list is non-empty and null if
\* it is empty, whatever the plan store held before.
C21_FirstPlanOrNull ==
    [][FetchDataSucceeds =>
        currentPlan' = (IF plans' # <<>> THEN plans'[1] ELSE NullObj)]_vars

\* The step in which handleUpload ends through its catch block, which
\* leaves a non-empty error.
HandleUploadFails ==
    /\ uploadPc # "idle" /\ uploadPc' = "idle"
    /\ \E r \in SettledOf("handleUpload") : reqs[r].result = "rejected"
    /\ error' # ""

\* C22 as stated: when handleUpload ends with a non-empty error, syllabusId
\* and parsedData are what they were when it was called, so the preferences
\* are shown afterwards only if they were shown before.
C22_FailedUploadChangesNothing ==
    [][HandleUploadFails =>
        /\ <<syllabusId', parsedData'>> = uploadFrom
        /\ (PreferencesShown' => uploadFrom[1] # 0)]_vars

\* The continuations of the flows other than fetchData.
FlowContinuations ==
    \/ IgnoredSettled
    \/ PutSettled
    \/ SaveProgressSettled
    \/ UploadSettled
    \/ SyllabiSettled
    \/ GenerateSettled
    \/ UnmountedSaveSettled
    \/ UnmountedUploadSettled
    \/ UnmountedGenerateSettled

\* The session with the event loop doing its part: a promise continuation
\* that is due is run. Nothing makes the server answer: the client is
\* created without a timeout, so a request may stay unanswered for ever.
SpecSessionFair ==
    /\ InitSessionSpec
    /\ [][NextPages]_vars
    /\ WF_vars(FetchAllSettled)
    /\ WF_vars(FetchProgressSettled)
    /\ WF_vars(FlowContinuations)

\* fetchData is under way: it has been started and has not reached the end
\* of its finally block.
FetchDataRunning == fetchPc \in {"await all", "await progress"}

\* fetchData is waiting for the server: one of its requests is unanswered.
FetchDataAwaitsAnswer ==
    \E r \in Slots : /\ reqs[r].owner \in FetchAll \cup {"fetchData: progress"}
                      /\ reqs[r].state \in {"sent", "refreshing"}

SaveSends(url) ==
    \E r \in Slots :
        /\ reqs[r].owner # "handleTaskSave" \/ reqs[r].url # url
        /\ reqs'[r].state = "sent"
        /\ reqs'[r].owner = "handleTaskSave"
        /\ reqs'[r].url = url

\* The step sends the progress request of a save whose dashboard has been
\* unmounted.
UnmountedSaveSendsProgress ==
    \E r \in Slots :
        /\ reqs[r].state = "idle"
        /\ reqs'[r].state = "sent"
        /\ reqs'[r].owner = "unmounted handleTaskSave"
        /\ reqs'[r].url = "/plans/{id}/progress"

\* The steps of a save on the mounted dashboard, in their order.
SaveOrderMounted ==
    /\ (savePc = "idle" /\ savePc' # "idle") =>
         /\ lastCall' = "handleTaskSave"
         /\ savePc' = "await put"
         /\ lastUpdate' = [taskId |-> selectedTask.id, updates |-> FormUpdates]
         /\ currentPlan' = UpdatedPlan(currentPlan, selectedTask.id, FormUpdates)
         /\ SaveSends("/plans/{id}/tasks/{id}")
         /\ ~SaveSends("/plans/{id}/progress")
         /\ updatingTask' = selectedTask.id
         /\ progress' = progress
    /\ SaveSends("/plans/{id}/tasks/{id}") => savePc = "idle"
    /\ SaveSends("/plans/{id}/progress") =>
            /\ savePc = "await put" /\ savePc' = "await progress"
            /\ \E r \in SettledOf("handleTaskSave") :
                /\ reqs[r].url = "/plans/{id}/tasks/{id}"
                /\ reqs[r].result = "resolved"
    /\ (savePc = "await put" /\ savePc' # "await put") =>
            \E r \in SettledOf("handleTaskSave") :
                IF reqs[r].result = "resolved"
                THEN SaveSends("/plans/{id}/progress") /\ progress' = progress
                ELSE /\ savePc' = "idle"
                     /\ progress' = progress
                     /\ \A q \in Slots : reqs'[q].owner # "handleTaskSave"
    /\ (savePc # "idle" /\ savePc' # "idle") =>
            updatingTask' = updatingTask /\ updatingTask # Null
    /\ (savePc # "idle" /\ savePc' = "idle") => updatingTask' = Null
    /\ (lastCall' = "handleTaskSave" /\ currentPlan = NullObj) =>
            UNCHANGED <<reqs, planVars, updatingTask, progress, console, savePc>>

\* C24: a save first writes the task into the store and sends the PUT (one
\* step, no await between them), and asks for the progress only in the step
\* that handles the fulfilled PUT; a rejected PUT sends nothing more and
\* leaves progress as it is; updatingTask is the id of the task being saved
\* from the first step to the last, which sets it to null whatever the
\* outcome; and a save with currentPlan null sends nothing and changes
\* nothing handleTaskSave could write. A save whose dashboard is unmounted
\* meanwhile keeps the order (the progress is asked for only after its
\* fulfilled PUT); the dashboard mounted next starts with updatingTask null
\* and no save under way.
C24_SaveOrder ==
    [][/\ lastCall' # "navigate" => SaveOrderMounted
       /\ lastCall' = "navigate" =>
            /\ \A r \in Slots : reqs'[r].owner # "handleTaskSave"
            /\ page' = "dashboard" => (savePc' = "idle" /\ updatingTask' = Null)
            /\ page' # "dashboard" => UNCHANGED <<savePc, updatingTask, progress>>
       /\ UnmountedSaveSendsProgress =>
            /\ progress' = progress
            /\ \E r \in SettledOf("unmounted handleTaskSave") :
                /\ reqs[r].url = "/plans/{id}/tasks/{id}"
                /\ reqs[r].result = "resolved"]_vars

\* A save has gone through all three steps: the PUT and the progress call
\* were fulfilled and updatingTask is null again.
C24_Witness ==
    /\ lastCall = "handleTaskSave: progress settled"
    /\ savePc = "idle"
    /\ updatingTask = Null
    /\ progress # NullObj
    /\ lastUpdate # NoCall

\* ------------------------------------------------------- the home page

\* HomePage's effect: router.push('/dashboard') with a session in the store,
\* router.push('/login') without.
HomeRedirect ==
    /\ page = "home" /\ href = "/"
    /\ href' = (IF isAuthenticated THEN "/dashboard" ELSE "/login")
    /\ Called("HomePage: useEffect")
    /\ UNCHANGED events
    /\ UNCHANGED <<localStorage, keysUsed, reqs, console, authVars, planVars,
                   dashVars, modalVars, uploadVars>>

\* The application opened at `/`.
InitHome ==
    /\ \E t \in {Null, "tA"} : InitStorageFrom({t}, {t})
    /\ page = "home"
    /\ href = "/"
    /\ isAuthenticated \in BOOLEAN
    /\ user = (IF isAuthenticated THEN "u1" ELSE Null)
    /\ InitApi /\ InitPlanStore /\ InitDashboard /\ InitModal /\ InitUpload

\* The three routes: the application opened at the home page, the dashboard
\* or the upload page, and the session that follows.
InitRoutesSpec ==
    \/ InitHome
    \/ InitPage("dashboard")
    \/ InitPage("upload")

NextRoutes ==
    \/ HomeRedirect
    \/ NextPages

SpecRoutes == InitRoutesSpec /\ [][NextRoutes]_vars

\* The step sends the two list requests of fetchData and nothing else.
FetchStarts ==
    /\ \E r \in Slots :
        /\ reqs[r].state = "idle" /\ reqs'[r].state = "sent"
        /\ reqs'[r].url = "/plans/"
    /\ \E r \in Slots :
        /\ reqs[r].state = "idle" /\ reqs'[r].state = "sent"
        /\ reqs'[r].url = "/syllabus/"
    /\ href' = href

\* The step sends a new request of one of the dashboard's flows in `owners`.
DashboardSends(owners) ==
    \E r \in Slots :
        /\ reqs[r].state = "idle"
        /\ reqs'[r].state = "sent"
        /\ reqs'[r].owner \in owners

FetchDataOwners == FetchAll \cup {"fetchData: progress"}

\* C25 as stated: a dashboard that is mounted while isAuthenticated is
\* false and no access_token is stored sends no API request.
C25_Original ==
    [][(/\ page = "dashboard"
        /\ ~isAuthenticated
        /\ localStorage["access_token"] = Null)
       => ~DashboardSends(FetchDataOwners \cup {"handleTaskSave"})]_vars

\* C25: the dashboard's effect goes to /login and sends nothing exactly when
\* isAuthenticated is false and no access_token is stored, and starts the
\* fetch of plans and syllabi otherwise; a dashboard in that case sends no
\* request of fetchData (the requests of a task save it still sends, while
\* it is mounted after a logout). The upload page, whenever it mounts, goes
\* to /login exactly when isAuthenticated is false; while it is mounted
\* without a session the path is /login and it has no request of its own
\* out, and with a session only a failed token refresh takes it to /login.
\* Whatever happens on the home page goes to /dashboard when isAuthenticated
\* is true, else to /login.
C25_AuthRedirects ==
    /\ [][/\ lastCall' = "useEffect" =>
                IF ~isAuthenticated /\ localStorage["access_token"] = Null
                THEN href' = "/login" /\ reqs' = reqs
                ELSE FetchStarts
          /\ (/\ page = "dashboard"
              /\ ~isAuthenticated
              /\ localStorage["access_token"] = Null)
             => ~DashboardSends(FetchDataOwners)
          /\ (/\ page = "dashboard" /\ page' = "dashboard"
              /\ href # "/login" /\ href' = "/login") =>
                \/ lastCall' = "useEffect"
                \/ lastCall' = "logout"
                \/ lastCall' = "api: refresh failed"
          /\ (page # "upload" /\ page' = "upload") =>
                /\ lastCall' = "navigate"
                /\ href = "/upload"
                /\ href' = (IF isAuthenticated THEN "/upload" ELSE "/login")
          /\ (/\ page = "upload" /\ page' = "upload"
              /\ href # "/login" /\ href' = "/login") =>
                (isAuthenticated /\ lastCall' = "api: refresh failed")
          /\ (page = "home" /\ href = "/") =>
                /\ lastCall' = "HomePage: useEffect"
                /\ href' = (IF isAuthenticated THEN "/dashboard" ELSE "/login")]_vars
    /\ []((page = "upload" /\ ~isAuthenticated) =>
            /\ href = "/login"
            /\ \A r \in Slots :
                reqs[r].owner \notin {"handleUpload", "handleGeneratePlan"})
    /\ []((page = "upload" /\ isAuthenticated /\ lastCall = "none") =>
            href = "/upload")

\* The dashboard found neither a session in the store nor a token and went
\* to /login without a request.
C25_Witness ==
    /\ lastCall = "useEffect"
    /\ page = "dashboard" /\ href = "/login"
    /\ fetchPc = "redirected"
    /\ ~isAuthenticated /\ localStorage["access_token"] = Null
    /\ \A r \in Slots : reqs[r].state = "idle"

\* ------------------------------------------------ the Generate button

\* The day buttons the user presses here: the last of the selected days, or
\* monday when none is selected.
DaysPressed ==
    IF selectedDays = <<>> THEN {"monday"}
    ELSE {selectedDays[Len(selectedDays)]}

\* toggleDay from one of the day buttons.
PressDay ==
    /\ ~ContinuationDue
    /\ OnUploadPage /\ PreferencesShown
    /\ \E day \in DaysPressed : selectedDays' = Toggled(selectedDays, day)
    /\ Called("toggleDay")
    /\ UNCHANGED events
    /\ UNCHANGED <<file, uploading, parsing, generating, syllabusId, parsedData,
                   error, studyHours, uploadPc, uploadFrom, generatePc>>
    /\ UNCHANGED <<apiVars, planVars, uploadFrame>>

\* The upload page mounted a second time while a generation started from its
\* first mount is unanswered: the state a logged-in session opened on the
\* upload page is in after a file is chosen and uploaded (the upload and the
\* list call fulfilled), Generate is pressed, Back is pressed, the dashboard
\* has fetched its (empty) lists, and its Upload button is pressed.
SecondMount ==
    /\ localStorage = [k \in StorageKeys |->
                          IF k \in {"access_token", "refresh_token"}
                          THEN "tA" ELSE Null]
    /\ keysUsed = {"access_token"}
    /\ reqs = [r \in Slots |->
                IF r = 2
                THEN Dispatch([IdleReq EXCEPT
                                !.url = "/plans/generate",
                                !.owner = "unmounted handleGeneratePlan",
                                !.data = [syllabus_id |-> 1,
                                          study_hours_per_day |-> 3,
                                          study_days |->
                                              <<"monday", "tuesday", "wednesday",
                                                "thursday", "friday">>]],
                              localStorage)
                ELSE IdleReq]
    /\ console = {}
    /\ page = "upload" /\ href = "/upload"
    /\ isAuthenticated = TRUE /\ user = "u1"
    /\ InitPlanStore
    /\ loading = FALSE /\ fetchPc = "done" /\ savePc = "idle"
    /\ progress = NullObj /\ updatingTask = Null
    /\ selectedTask = NullObj /\ isModalOpen = FALSE
    /\ InitModal
    /\ InitUpload

\* Bound: the outside events of the session that follow the second mount.
MaxLaterEvents == 3

\* The session goes on from the second mount, with room for MaxLaterEvents
\* more events.
InitSecondMount ==
    /\ SecondMount
    /\ lastCall = "navigate"
    /\ events = MaxEvents - MaxLaterEvents

\* The session opened on the dashboard, and the session at the second mount
\* of the upload page.
InitGenerateSpec == InitDashboardSpec \/ InitSecondMount

\* The two pages with every day button in reach.
NextGenerate ==
    \/ PressDay
    \/ NextPages

SpecGenerate == InitGenerateSpec /\ [][NextGenerate]_vars

\* The step sends a new plan generation request from slot r.
GenerateSent(r) ==
    /\ reqs[r].owner # "handleGeneratePlan"
    /\ reqs'[r].owner = "handleGeneratePlan"
    /\ reqs'[r].url = "/plans/generate"
    /\ reqs'[r].state = "sent"

\* The generations started from the upload page, whichever mount of it.
GenerateOwners == {"handleGeneratePlan", "unmounted handleGeneratePlan"}

\* C26 as stated: a generation request sent through the Generate button
\* carries a non-empty study_days list and is sent while no other generation
\* started from the upload page is in flight; generating is false again when
\* an attempt ends.
C26_Original ==
    [][/\ \A r \in Slots : GenerateSent(r) =>
            /\ reqs'[r].data.study_days # <<>>
            /\ \A q \in Slots : reqs[q].owner \notin GenerateOwners
       /\ lastCall' = "handleGeneratePlan: settled" => ~generating']_vars

\* C26: a generation request sent through the Generate button carries a
\* non-empty study_days list (the days selected at the press) and is sent
\* while generating is false and no other generation request of the same
\* mount of the page is out; a generation of an earlier mount may still be
\* in flight then, for a page mounted anew starts with generating false.
\* generating is true while the attempt of the mounted page runs and is
\* false again in the step that ends it, fulfilled or rejected; the end of
\* an attempt of an earlier mount leaves generating as it is.
C26_GenerateButton ==
    /\ [][/\ \A r \in Slots : GenerateSent(r) =>
                /\ lastCall' = "handleGeneratePlan"
                /\ reqs'[r].data.study_days # <<>>
                /\ reqs'[r].data.study_days = selectedDays
                /\ ~generating /\ generating'
                /\ \A q \in Slots : reqs[q].owner # "handleGeneratePlan"
          /\ (generatePc # "idle" /\ generatePc' = "idle") => ~generating'
          /\ (generating /\ ~generating') =>
                \/ lastCall' = "handleGeneratePlan: settled"
                \/ lastCall' = "navigate" /\ page' = "upload"
          /\ lastCall' = "handleGeneratePlan: settled" =>
                (generatePc = "await generate" /\ ~generating')
          /\ lastCall' = "unmounted handleGeneratePlan: settled" =>
                UNCHANGED <<generating, generatePc>>
          /\ lastCall' = "navigate" =>
                \A q \in Slots : reqs'[q].owner # "handleGeneratePlan"]_vars
    /\ [](generating <=> generatePc # "idle")
    /\ [](Cardinality({r \in Slots : reqs[r].owner = "handleGeneratePlan"}) <= 1)
    /\ []((page = "upload" /\ generating) =>
            \E r \in Slots : /\ reqs[r].owner = "handleGeneratePlan"
                             /\ reqs[r].data.study_days # <<>>)

\* A generation attempt has been rejected, generating is false again, and
\* the user has since deselected every day: the Generate button is shown
\* and takes no press.
C26_Witness ==
    /\ PreferencesShown
    /\ page = "upload"
    /\ error \in {"Plan generation failed", "generate detail"}
    /\ ~generating /\ generatePc = "idle"
    /\ selectedDays = <<>>
    /\ ~GenerateButtonEnabled

\* C27: whatever setUser and logout calls have been made, isAuthenticated is
\* true exactly when user is not null; and the state a logout call leaves
\* has user null, isAuthenticated false, and neither access_token nor
\* refresh_token in the storage.
C27_AuthStoreConsistent ==
    /\ [](isAuthenticated <=> user # Null)
    /\ [][lastCall' = "setUser" => (isAuthenticated' <=> user' # Null)]_vars
    /\ [][lastCall' = "logout" =>
            /\ user' = Null
            /\ ~isAuthenticated'
            /\ localStorage'["access_token"] = Null
            /\ localStorage'["refresh_token"] = Null]_vars

\* A logout has just been called: nobody is logged in and no token is
\* stored.
C27_Witness ==
    /\ lastCall = "logout"
    /\ user = Null /\ ~isAuthenticated
    /\ localStorage["access_token"] = Null
    /\ localStorage["refresh_token"] = Null
    /\ {"access_token", "refresh_token"} \subseteq keysUsed

====
